---- MODULE Spec2Model ----
(***************************************************************************)
(* A model of the vte parser: the table-driven VT state machine            *)
(* (Parser::advance and the actions it performs), the UTF-8 decoder it     *)
(* delegates to, and the performer events it emits.                        *)
(*                                                                         *)
(* Bytes are the integers 0..255.  A signed 64-bit parameter is kept at    *)
(* its full width as three decimal limbs <<hi, mid, lo>> with value        *)
(* hi * 10^14 + mid * 10^7 + lo, because the model checker's own integers  *)
(* are narrower than an i64.                                               *)
(***************************************************************************)
EXTENDS Integers, Sequences, FiniteSets, TLC

(***************************************************************************)
(* definitions.rs: State and Action discriminants.                         *)
(***************************************************************************)
Anywhere == 0
CsiEntry == 1
CsiIgnore == 2
CsiIntermediate == 3
CsiParam == 4
DcsEntry == 5
DcsIgnore == 6
DcsIntermediate == 7
DcsParam == 8
DcsPassthrough == 9
Escape == 10
EscapeIntermediate == 11
Ground == 12
OscString == 13
SosPmApcString == 14
Utf8 == 15

ActNone == 0
ActCollect == 1
ActCsiDispatch == 2
ActEscDispatch == 3
ActExecute == 4
ActIgnore == 5
ActOscPut == 6
ActParam == 7
ActPrint == 8
ActPut == 9
ActBeginUtf8 == 10
ActCheckDcsSosPmApc == 11
ActClear == 16
ActHook == 17
ActUnhook == 18
ActOscStart == 19
ActOscEnd == 20

MAX_INTERMEDIATES == 2
MAX_OSC_RAW == 1024
MAX_PARAMS == 16

\* unpack that reads the state off the top 4 bits and the action off the
\* bottom 4.
UnpackSwapped(delta) == <<delta \div 16, delta % 16>>

\* Unpack a u8 into a State (bottom 4 bits) and an Action (top 4 bits).
unpack(delta) == <<delta % 16, delta \div 16>>

\* (action as u8) << 4 | state as u8: the shift keeps the 8 bits of a u8,
\* and leaves the low 4 bits clear, so that | adds a state below 16.
pack(state, action) == ((action * 16) % 256) + state

(***************************************************************************)
(* i64 arithmetic on the non-negative range the parser uses.               *)
(***************************************************************************)
I64_MAX == <<92233, 7203685, 4775807>>

I64(n) == <<0, 0, n>>

\* v <= w for limb triples (the hi limb may hold an intermediate excess).
I64Leq(v, w) ==
    \/ v[1] < w[1]
    \/ v[1] = w[1] /\ v[2] < w[2]
    \/ v[1] = w[1] /\ v[2] = w[2] /\ v[3] <= w[3]

\* i64::saturating_mul: the exact product, or i64::MAX when it does not fit.
saturating_mul(v, k) ==
    LET lo  == v[3] * k
        mid == v[2] * k + (lo \div 10000000)
        hi  == v[1] * k + (mid \div 10000000)
        r   == <<hi, mid % 10000000, lo % 10000000>>
    IN  IF I64Leq(r, I64_MAX) THEN r ELSE I64_MAX

\* The exact sum, not clamped to i64::MAX.
AddUnclamped(v, d) ==
    LET lo  == v[3] + d
        mid == v[2] + (lo \div 10000000)
        hi  == v[1] + (mid \div 10000000)
    IN  <<hi, mid % 10000000, lo % 10000000>>

\* i64::saturating_add of a small non-negative d.
saturating_add(v, d) ==
    LET lo  == v[3] + d
        mid == v[2] + (lo \div 10000000)
        hi  == v[1] + (mid \div 10000000)
        r   == <<hi, mid % 10000000, lo % 10000000>>
    IN  IF I64Leq(r, I64_MAX) THEN r ELSE I64_MAX

(***************************************************************************)
(* table.rs (not in the tree): the transition table of the state diagram   *)
(* at vt100.net/emu/dec_ansi_parser with the crate's modifications: 7-bit  *)
(* controls only, BEL ends an OSC string, Ground hands 0x80..0xFF to the   *)
(* UTF-8 decoder, and the entries leading to DcsEntry / SosPmApcString     *)
(* carry CheckDcsSosPmApc.  An absent entry is 0.                          *)
(***************************************************************************)
C0Byte(b) == b \in 0..23 \/ b = 25 \/ b \in 28..31

AnywhereRow(b) ==
    CASE b = 24 -> pack(Ground, ActExecute)
      [] b = 26 -> pack(Ground, ActExecute)
      [] b = 27 -> pack(Escape, ActNone)
      [] OTHER -> 0

GroundRow(b) ==
    CASE C0Byte(b) -> pack(Anywhere, ActExecute)
      [] b \in 32..127 -> pack(Anywhere, ActPrint)
      [] b \in 128..255 -> pack(Utf8, ActBeginUtf8)
      [] OTHER -> 0

EscapeRow(b) ==
    CASE C0Byte(b) -> pack(Anywhere, ActExecute)
      [] b = 127 -> pack(Anywhere, ActIgnore)
      [] b \in 32..47 -> pack(EscapeIntermediate, ActCollect)
      [] b = 80 -> pack(DcsEntry, ActCheckDcsSosPmApc)
      [] b \in {88, 94, 95} -> pack(SosPmApcString, ActCheckDcsSosPmApc)
      [] b = 91 -> pack(CsiEntry, ActNone)
      [] b = 93 -> pack(OscString, ActNone)
      [] b \in 48..126 -> pack(Ground, ActEscDispatch)
      [] OTHER -> 0

EscapeIntermediateRow(b) ==
    CASE C0Byte(b) -> pack(Anywhere, ActExecute)
      [] b \in 32..47 -> pack(Anywhere, ActCollect)
      [] b = 127 -> pack(Anywhere, ActIgnore)
      [] b \in 48..126 -> pack(Ground, ActEscDispatch)
      [] OTHER -> 0

CsiEntryRow(b) ==
    CASE C0Byte(b) -> pack(Anywhere, ActExecute)
      [] b = 127 -> pack(Anywhere, ActIgnore)
      [] b \in 32..47 -> pack(CsiIntermediate, ActCollect)
      [] b = 58 -> pack(CsiIgnore, ActNone)
      [] b \in 48..57 -> pack(CsiParam, ActParam)
      [] b = 59 -> pack(CsiParam, ActParam)
      [] b \in 60..63 -> pack(CsiParam, ActCollect)
      [] b \in 64..126 -> pack(Ground, ActCsiDispatch)
      [] OTHER -> 0

CsiIgnoreRow(b) ==
    CASE C0Byte(b) -> pack(Anywhere, ActExecute)
      [] b \in 32..63 -> pack(Anywhere, ActIgnore)
      [] b = 127 -> pack(Anywhere, ActIgnore)
      [] b \in 64..126 -> pack(Ground, ActNone)
      [] OTHER -> 0

CsiParamRow(b) ==
    CASE C0Byte(b) -> pack(Anywhere, ActExecute)
      [] b \in 48..57 -> pack(Anywhere, ActParam)
      [] b = 59 -> pack(Anywhere, ActParam)
      [] b = 127 -> pack(Anywhere, ActIgnore)
      [] b = 58 -> pack(CsiIgnore, ActNone)
      [] b \in 60..63 -> pack(CsiIgnore, ActNone)
      [] b \in 32..47 -> pack(CsiIntermediate, ActCollect)
      [] b \in 64..126 -> pack(Ground, ActCsiDispatch)
      [] OTHER -> 0

CsiIntermediateRow(b) ==
    CASE C0Byte(b) -> pack(Anywhere, ActExecute)
      [] b \in 32..47 -> pack(Anywhere, ActCollect)
      [] b = 127 -> pack(Anywhere, ActIgnore)
      [] b \in 48..63 -> pack(CsiIgnore, ActNone)
      [] b \in 64..126 -> pack(Ground, ActCsiDispatch)
      [] OTHER -> 0

DcsEntryRow(b) ==
    CASE C0Byte(b) -> pack(Anywhere, ActIgnore)
      [] b = 127 -> pack(Anywhere, ActIgnore)
      [] b = 58 -> pack(DcsIgnore, ActNone)
      [] b \in 32..47 -> pack(DcsIntermediate, ActCollect)
      [] b \in 48..57 -> pack(DcsParam, ActParam)
      [] b = 59 -> pack(DcsParam, ActParam)
      [] b \in 60..63 -> pack(DcsParam, ActCollect)
      [] b \in 64..126 -> pack(DcsPassthrough, ActNone)
      [] OTHER -> 0

DcsIntermediateRow(b) ==
    CASE C0Byte(b) -> pack(Anywhere, ActIgnore)
      [] b \in 32..47 -> pack(Anywhere, ActCollect)
      [] b = 127 -> pack(Anywhere, ActIgnore)
      [] b \in 48..63 -> pack(DcsIgnore, ActNone)
      [] b \in 64..126 -> pack(DcsPassthrough, ActNone)
      [] OTHER -> 0

DcsIgnoreRow(b) ==
    CASE C0Byte(b) -> pack(Anywhere, ActIgnore)
      [] b \in 32..127 -> pack(Anywhere, ActIgnore)
      [] b = 156 -> pack(Ground, ActNone)
      [] OTHER -> 0

DcsParamRow(b) ==
    CASE C0Byte(b) -> pack(Anywhere, ActIgnore)
      [] b \in 48..57 -> pack(Anywhere, ActParam)
      [] b = 59 -> pack(Anywhere, ActParam)
      [] b = 127 -> pack(Anywhere, ActIgnore)
      [] b = 58 -> pack(DcsIgnore, ActNone)
      [] b \in 60..63 -> pack(DcsIgnore, ActNone)
      [] b \in 32..47 -> pack(DcsIntermediate, ActCollect)
      [] b \in 64..126 -> pack(DcsPassthrough, ActNone)
      [] OTHER -> 0

DcsPassthroughRow(b) ==
    CASE C0Byte(b) -> pack(Anywhere, ActPut)
      [] b \in 32..126 -> pack(Anywhere, ActPut)
      [] b = 127 -> pack(Anywhere, ActIgnore)
      [] b = 156 -> pack(Ground, ActNone)
      [] OTHER -> 0

SosPmApcStringRow(b) ==
    CASE C0Byte(b) -> pack(Anywhere, ActIgnore)
      [] b \in 32..127 -> pack(Anywhere, ActIgnore)
      [] b = 156 -> pack(Ground, ActNone)
      [] OTHER -> 0

OscStringRow(b) ==
    CASE b = 7 -> pack(Ground, ActNone)
      [] C0Byte(b) -> pack(Anywhere, ActIgnore)
      [] b \in 32..255 -> pack(Anywhere, ActOscPut)
      [] OTHER -> 0

STATE_CHANGES(st, b) ==
    CASE st = Anywhere -> AnywhereRow(b)
      [] st = Ground -> GroundRow(b)
      [] st = Escape -> EscapeRow(b)
      [] st = EscapeIntermediate -> EscapeIntermediateRow(b)
      [] st = CsiEntry -> CsiEntryRow(b)
      [] st = CsiIgnore -> CsiIgnoreRow(b)
      [] st = CsiParam -> CsiParamRow(b)
      [] st = CsiIntermediate -> CsiIntermediateRow(b)
      [] st = DcsEntry -> DcsEntryRow(b)
      [] st = DcsIntermediate -> DcsIntermediateRow(b)
      [] st = DcsIgnore -> DcsIgnoreRow(b)
      [] st = DcsParam -> DcsParamRow(b)
      [] st = DcsPassthrough -> DcsPassthroughRow(b)
      [] st = SosPmApcString -> SosPmApcStringRow(b)
      [] st = OscString -> OscStringRow(b)
      [] OTHER -> 0

\* State::entry_action / State::exit_action (not in the tree).
entry_action(st) ==
    CASE st \in {CsiEntry, DcsEntry, Escape} -> ActClear
      [] st = DcsPassthrough -> ActHook
      [] st = OscString -> ActOscStart
      [] OTHER -> ActNone

exit_action(st) ==
    CASE st = DcsPassthrough -> ActUnhook
      [] st = OscString -> ActOscEnd
      [] OTHER -> ActNone

(***************************************************************************)
(* utf8parse: the UTF-8 decoder.                                           *)
(***************************************************************************)
RECURSIVE BitOr(_, _)
BitOr(a, b) ==
    IF a = 0 THEN b
    ELSE IF b = 0 THEN a
    ELSE (IF a % 2 = 1 \/ b % 2 = 1 THEN 1 ELSE 0) + 2 * BitOr(a \div 2, b \div 2)

\* byte & mask, for a mask of the low bits (mask + 1 a power of two).
BitAndLow(byte, mask) == byte % (mask + 1)

CONTINUATION_MASK == 63

REPLACEMENT_CHARACTER == 65533

\* next that takes any continuation byte after 0xE0, overlong forms included.
Utf8NextOverlong(ustate, byte) ==
    CASE ustate = "Ground" ->
           (CASE byte \in 0..127 -> <<"Ground", "EmitByte">>
              [] byte \in 194..223 -> <<"Tail1", "SetByte2Top">>
              [] byte = 224 -> <<"Tail2", "SetByte3Top">>
              [] byte \in 225..236 -> <<"Tail2", "SetByte3Top">>
              [] byte = 237 -> <<"U3_2_ed", "SetByte3Top">>
              [] byte \in 238..239 -> <<"Tail2", "SetByte3Top">>
              [] byte = 240 -> <<"Utf8_4_3_f0", "SetByte4">>
              [] byte \in 241..243 -> <<"Tail3", "SetByte4">>
              [] byte = 244 -> <<"Utf8_4_3_f4", "SetByte4">>
              [] OTHER -> <<"Ground", "InvalidSequence">>)
      [] ustate = "U3_2_e0" ->
           IF byte \in 160..191 THEN <<"Tail1", "SetByte2">>
           ELSE <<"Ground", "InvalidSequence">>
      [] ustate = "U3_2_ed" ->
           IF byte \in 128..159 THEN <<"Tail1", "SetByte2">>
           ELSE <<"Ground", "InvalidSequence">>
      [] ustate = "Utf8_4_3_f0" ->
           IF byte \in 144..191 THEN <<"Tail2", "SetByte3">>
           ELSE <<"Ground", "InvalidSequence">>
      [] ustate = "Utf8_4_3_f4" ->
           IF byte \in 128..143 THEN <<"Tail2", "SetByte3">>
           ELSE <<"Ground", "InvalidSequence">>
      [] ustate = "Tail3" ->
           IF byte \in 128..191 THEN <<"Tail2", "SetByte3">>
           ELSE <<"Ground", "InvalidSequence">>
      [] ustate = "Tail2" ->
           IF byte \in 128..191 THEN <<"Tail1", "SetByte2">>
           ELSE <<"Ground", "InvalidSequence">>
      [] ustate = "Tail1" ->
           IF byte \in 128..191 THEN <<"Ground", "SetByte1">>
           ELSE <<"Ground", "InvalidSequence">>

\* utf8::Parser::next: the (state, action) a byte selects.
Utf8Next(ustate, byte) ==
    CASE ustate = "Ground" ->
           (CASE byte \in 0..127 -> <<"Ground", "EmitByte">>
              [] byte \in 194..223 -> <<"Tail1", "SetByte2Top">>
              [] byte = 224 -> <<"U3_2_e0", "SetByte3Top">>
              [] byte \in 225..236 -> <<"Tail2", "SetByte3Top">>
              [] byte = 237 -> <<"U3_2_ed", "SetByte3Top">>
              [] byte \in 238..239 -> <<"Tail2", "SetByte3Top">>
              [] byte = 240 -> <<"Utf8_4_3_f0", "SetByte4">>
              [] byte \in 241..243 -> <<"Tail3", "SetByte4">>
              [] byte = 244 -> <<"Utf8_4_3_f4", "SetByte4">>
              [] OTHER -> <<"Ground", "InvalidSequence">>)
      [] ustate = "U3_2_e0" ->
           IF byte \in 160..191 THEN <<"Tail1", "SetByte2">>
           ELSE <<"Ground", "InvalidSequence">>
      [] ustate = "U3_2_ed" ->
           IF byte \in 128..159 THEN <<"Tail1", "SetByte2">>
           ELSE <<"Ground", "InvalidSequence">>
      [] ustate = "Utf8_4_3_f0" ->
           IF byte \in 144..191 THEN <<"Tail2", "SetByte3">>
           ELSE <<"Ground", "InvalidSequence">>
      [] ustate = "Utf8_4_3_f4" ->
           IF byte \in 128..143 THEN <<"Tail2", "SetByte3">>
           ELSE <<"Ground", "InvalidSequence">>
      [] ustate = "Tail3" ->
           IF byte \in 128..191 THEN <<"Tail2", "SetByte3">>
           ELSE <<"Ground", "InvalidSequence">>
      [] ustate = "Tail2" ->
           IF byte \in 128..191 THEN <<"Tail1", "SetByte2">>
           ELSE <<"Ground", "InvalidSequence">>
      [] ustate = "Tail1" ->
           IF byte \in 128..191 THEN <<"Ground", "SetByte1">>
           ELSE <<"Ground", "InvalidSequence">>

\* perform_action that leaves the top bits of a three-byte sequence unshifted.
Utf8PerformActionTopUnshifted(point, byte, action) ==
    CASE action = "InvalidSequence" ->
           [point |-> 0, told |-> <<"invalid_sequence">>]
      [] action = "EmitByte" ->
           [point |-> point, told |-> <<"codepoint", byte>>]
      [] action = "SetByte1" ->
           [point |-> 0,
            told |-> <<"codepoint", BitOr(point, BitAndLow(byte, CONTINUATION_MASK))>>]
      [] action = "SetByte2" ->
           [point |-> BitOr(point, BitAndLow(byte, CONTINUATION_MASK) * 64),
            told |-> <<>>]
      [] action = "SetByte2Top" ->
           [point |-> BitOr(point, BitAndLow(byte, 31) * 64), told |-> <<>>]
      [] action = "SetByte3" ->
           [point |-> BitOr(point, BitAndLow(byte, CONTINUATION_MASK) * 4096),
            told |-> <<>>]
      [] action = "SetByte3Top" ->
           [point |-> BitOr(point, BitAndLow(byte, 15)), told |-> <<>>]
      [] action = "SetByte4" ->
           [point |-> BitOr(point, BitAndLow(byte, 7) * 262144), told |-> <<>>]

\* perform_action whose SetByte1 emits the code point and keeps the bits in
\* the accumulator.
Utf8PerformActionKeepsPoint(point, byte, action) ==
    CASE action = "InvalidSequence" ->
           [point |-> 0, told |-> <<"invalid_sequence">>]
      [] action = "EmitByte" ->
           [point |-> point, told |-> <<"codepoint", byte>>]
      [] action = "SetByte1" ->
           [point |-> BitOr(point, BitAndLow(byte, CONTINUATION_MASK)),
            told |-> <<"codepoint", BitOr(point, BitAndLow(byte, CONTINUATION_MASK))>>]
      [] action = "SetByte2" ->
           [point |-> BitOr(point, BitAndLow(byte, CONTINUATION_MASK) * 64),
            told |-> <<>>]
      [] action = "SetByte2Top" ->
           [point |-> BitOr(point, BitAndLow(byte, 31) * 64), told |-> <<>>]
      [] action = "SetByte3" ->
           [point |-> BitOr(point, BitAndLow(byte, CONTINUATION_MASK) * 4096),
            told |-> <<>>]
      [] action = "SetByte3Top" ->
           [point |-> BitOr(point, BitAndLow(byte, 15) * 4096), told |-> <<>>]
      [] action = "SetByte4" ->
           [point |-> BitOr(point, BitAndLow(byte, 7) * 262144), told |-> <<>>]

\* utf8::Parser::perform_action: the new accumulator and what the receiver
\* is told (<<>>, <<"invalid_sequence">> or <<"codepoint", c>>).
Utf8PerformAction(point, byte, action) ==
    CASE action = "InvalidSequence" ->
           [point |-> 0, told |-> <<"invalid_sequence">>]
      [] action = "EmitByte" ->
           [point |-> point, told |-> <<"codepoint", byte>>]
      [] action = "SetByte1" ->
           [point |-> 0,
            told |-> <<"codepoint", BitOr(point, BitAndLow(byte, CONTINUATION_MASK))>>]
      [] action = "SetByte2" ->
           [point |-> BitOr(point, BitAndLow(byte, CONTINUATION_MASK) * 64),
            told |-> <<>>]
      [] action = "SetByte2Top" ->
           [point |-> BitOr(point, BitAndLow(byte, 31) * 64), told |-> <<>>]
      [] action = "SetByte3" ->
           [point |-> BitOr(point, BitAndLow(byte, CONTINUATION_MASK) * 4096),
            told |-> <<>>]
      [] action = "SetByte3Top" ->
           [point |-> BitOr(point, BitAndLow(byte, 15) * 4096), told |-> <<>>]
      [] action = "SetByte4" ->
           [point |-> BitOr(point, BitAndLow(byte, 7) * 262144), told |-> <<>>]

\* utf8::Parser::advance as lib.rs calls it: the result says whether the byte
\* was consumed.  An invalid byte met in Ground is consumed (InvalidByte); a
\* byte that is no valid continuation is not (InvalidContinuation) and has
\* to be processed again from Ground.
Utf8Advance(ustate, point, byte) ==
    LET na == Utf8Next(ustate, byte)
        r  == Utf8PerformAction(point, byte, na[2])
    IN  [state |-> na[1], point |-> r.point, told |-> r.told,
         consumed |-> ~(na[2] = "InvalidSequence" /\ ustate # "Ground")]

\* utf8::Parser::end: an unfinished sequence is reported as invalid.
Utf8End(ustate, point) ==
    IF ustate # "Ground"
    THEN [state |-> "Ground", point |-> 0, told |-> <<"invalid_sequence">>]
    ELSE [state |-> ustate, point |-> point, told |-> <<>>]

(***************************************************************************)
(* lib.rs: the Parser.  A parser value is a record of the struct's fields  *)
(* plus out, the events the performer has received during the current      *)
(* call.  params and osc_params hold the live prefix of the fixed arrays   *)
(* (num_params / osc_num_params are their lengths).  no_std is the build:  *)
(* with the no_std feature osc_raw is an ArrayVec of MAX_OSC_RAW bytes,    *)
(* without it a Vec.                                                       *)
(***************************************************************************)
NewParser ==
    [no_std |-> FALSE,
     state |-> Ground,
     intermediates |-> <<>>,
     params |-> <<>>,
     param |-> I64(0),
     osc_raw |-> <<>>,
     osc_params |-> <<>>,
     ignoring |-> FALSE,
     utf8_state |-> "Ground",
     utf8_point |-> 0,
     no_dcs_sos_pm_apc |-> FALSE,
     out |-> <<>>]

Emit(p, e) == [p EXCEPT !.out = Append(@, e)]

\* clear without the reset of num_params.
ClearKeepsParams(p) ==
    [p EXCEPT !.intermediates = <<>>,
              !.ignoring = FALSE,
              !.param = I64(0)]

\* Parser::clear
clear(p) ==
    [p EXCEPT !.intermediates = <<>>,
              !.ignoring = FALSE,
              !.params = <<>>,
              !.param = I64(0)]

PrintChar(p, byte) == Emit(p, [ev |-> "print", c |-> byte])

Execute(p, byte) == Emit(p, [ev |-> "execute", byte |-> byte])

Hook(p, byte) ==
    LET q == IF Len(p.params) = MAX_PARAMS
             THEN [p EXCEPT !.ignoring = TRUE]
             ELSE [p EXCEPT !.params = Append(@, p.param)]
    IN  Emit(q, [ev |-> "hook", params |-> q.params,
                 intermediates |-> q.intermediates,
                 ignore |-> q.ignoring, action |-> byte])

Put(p, byte) == Emit(p, [ev |-> "put", byte |-> byte])

OscStart(p) == [p EXCEPT !.osc_raw = <<>>, !.osc_params = <<>>]

\* OscPut that stores a ';' met with MAX_PARAMS parameters like a plain byte.
OscPutAppendsSemi(p, byte) ==
    LET idx == Len(p.osc_raw)
        param_idx == Len(p.osc_params)
    IN  IF byte = 59 /\ param_idx < MAX_PARAMS
        THEN IF param_idx = 0
             THEN [p EXCEPT !.osc_params = Append(@, <<0, idx>>)]
             ELSE [p EXCEPT !.osc_params =
                              Append(@, <<p.osc_params[param_idx][2], idx>>)]
        ELSE [p EXCEPT !.osc_raw = Append(@, byte)]

\* OscPut that begins every parameter at offset 0.
OscPutFromZero(p, byte) ==
    LET idx == Len(p.osc_raw)
        param_idx == Len(p.osc_params)
    IN  IF byte = 59
        THEN IF param_idx = MAX_PARAMS THEN p
             ELSE [p EXCEPT !.osc_params = Append(@, <<0, idx>>)]
        ELSE [p EXCEPT !.osc_raw = Append(@, byte)]

\* OscPut without the is_full check of the no_std build.
OscPutUnguarded(p, byte) ==
    LET idx == Len(p.osc_raw)
        param_idx == Len(p.osc_params)
    IN  IF byte = 59
        THEN IF param_idx = MAX_PARAMS THEN p
             ELSE IF param_idx = 0
                  THEN [p EXCEPT !.osc_params = Append(@, <<0, idx>>)]
                  ELSE [p EXCEPT !.osc_params =
                                   Append(@, <<p.osc_params[param_idx][2], idx>>)]
        ELSE [p EXCEPT !.osc_raw = Append(@, byte)]

OscPut(p, byte) ==
    LET idx == Len(p.osc_raw)
        param_idx == Len(p.osc_params)
    IN  IF p.no_std /\ Len(p.osc_raw) = MAX_OSC_RAW THEN p
        ELSE IF byte = 59
        THEN IF param_idx = MAX_PARAMS THEN p
             ELSE IF param_idx = 0
                  THEN [p EXCEPT !.osc_params = Append(@, <<0, idx>>)]
                  ELSE [p EXCEPT !.osc_params =
                                   Append(@, <<p.osc_params[param_idx][2], idx>>)]
        ELSE [p EXCEPT !.osc_raw = Append(@, byte)]

\* osc_dispatch that reports every terminator but ESC as a bell.
OscDispatchNotEsc(p, byte) ==
    Emit(p, [ev |-> "osc_dispatch",
             params |-> [i \in 1..Len(p.osc_params) |->
                           SubSeq(p.osc_raw, p.osc_params[i][1] + 1,
                                  p.osc_params[i][2])],
             bell_terminated |-> (byte # 27)])

\* Parser::osc_dispatch: one slice of osc_raw per stored index pair.
osc_dispatch(p, byte) ==
    Emit(p, [ev |-> "osc_dispatch",
             params |-> [i \in 1..Len(p.osc_params) |->
                           SubSeq(p.osc_raw, p.osc_params[i][1] + 1,
                                  p.osc_params[i][2])],
             bell_terminated |-> (byte = 7)])

\* OscEnd that dispatches without finishing the last parameter.
OscEndNoFinish(p, byte) == osc_dispatch(p, byte)

OscEnd(p, byte) ==
    LET idx == Len(p.osc_raw)
        param_idx == Len(p.osc_params)
        q == IF param_idx = MAX_PARAMS THEN p
             ELSE IF param_idx = 0
                  THEN [p EXCEPT !.osc_params = Append(@, <<0, idx>>)]
                  ELSE [p EXCEPT !.osc_params =
                                   Append(@, <<p.osc_params[param_idx][2], idx>>)]
    IN  osc_dispatch(q, byte)

Unhook(p) == Emit(p, [ev |-> "unhook"])

\* CsiDispatch without the push of the open parameter.
CsiDispatchNoPush(p, byte) ==
    LET q == IF Len(p.params) = MAX_PARAMS
             THEN [p EXCEPT !.ignoring = TRUE]
             ELSE p
    IN  Emit(q, [ev |-> "csi_dispatch", params |-> q.params,
                 intermediates |-> q.intermediates,
                 ignore |-> q.ignoring, action |-> byte])

CsiDispatch(p, byte) ==
    LET q == IF Len(p.params) = MAX_PARAMS
             THEN [p EXCEPT !.ignoring = TRUE]
             ELSE [p EXCEPT !.params = Append(@, p.param)]
    IN  Emit(q, [ev |-> "csi_dispatch", params |-> q.params,
                 intermediates |-> q.intermediates,
                 ignore |-> q.ignoring, action |-> byte])

EscDispatch(p, byte) ==
    Emit(p, [ev |-> "esc_dispatch", intermediates |-> p.intermediates,
             ignore |-> p.ignoring, byte |-> byte])

\* Collect that drops the excess byte without flagging it.
CollectNoIgnore(p, byte) ==
    IF Len(p.intermediates) = MAX_INTERMEDIATES
    THEN p
    ELSE [p EXCEPT !.intermediates = Append(@, byte)]

Collect(p, byte) ==
    IF Len(p.intermediates) = MAX_INTERMEDIATES
    THEN [p EXCEPT !.ignoring = TRUE]
    ELSE [p EXCEPT !.intermediates = Append(@, byte)]

\* Param without the MAX_PARAMS check.
ParamUnchecked(p, byte) ==
    IF byte = 59
    THEN [p EXCEPT !.params = Append(@, p.param), !.param = I64(0)]
    ELSE [p EXCEPT !.param =
                     saturating_add(saturating_mul(p.param, 10), byte - 48)]

\* Param that stores an excess parameter over the last slot.
ParamOverwrite(p, byte) ==
    IF Len(p.params) = MAX_PARAMS
    THEN [p EXCEPT !.ignoring = TRUE, !.params[MAX_PARAMS] = p.param, !.param = I64(0)]
    ELSE IF byte = 59
         THEN [p EXCEPT !.params = Append(@, p.param), !.param = I64(0)]
         ELSE [p EXCEPT !.param =
                          saturating_add(saturating_mul(p.param, 10), byte - 48)]

Param(p, byte) ==
    IF Len(p.params) = MAX_PARAMS
    THEN [p EXCEPT !.ignoring = TRUE]
    ELSE IF byte = 59
         THEN [p EXCEPT !.params = Append(@, p.param), !.param = I64(0)]
         ELSE [p EXCEPT !.param =
                          saturating_add(saturating_mul(p.param, 10), byte - 48)]

\* CheckDcsSosPmApc that dispatches but does not return to Ground.
CheckDcsStays(p, byte) ==
    IF p.no_dcs_sos_pm_apc
    THEN LET q == clear(p)
         IN  Emit(q, [ev |-> "esc_dispatch", intermediates |-> q.intermediates,
                      ignore |-> q.ignoring, byte |-> byte])
    ELSE p

CheckDcsSosPmApc(p, byte) ==
    IF p.no_dcs_sos_pm_apc
    THEN LET q == clear([p EXCEPT !.state = Escape])
         IN  [Emit(q, [ev |-> "esc_dispatch", intermediates |-> q.intermediates,
                       ignore |-> q.ignoring, byte |-> byte])
                EXCEPT !.state = Ground]
    ELSE p

\* A receiver that prints and leaves the VT state as it is.
VtUtf8ReceiveKeepsState(p, told) ==
    IF told = <<>> THEN p
    ELSE IF told[1] = "codepoint"
         THEN Emit(p, [ev |-> "print", c |-> told[2]])
         ELSE Emit(p, [ev |-> "print", c |-> REPLACEMENT_CHARACTER])

\* VtUtf8Receiver: what the decoder reports is printed and the VT state
\* returns to Ground.
VtUtf8Receive(p, told) ==
    IF told = <<>> THEN p
    ELSE IF told[1] = "codepoint"
         THEN [Emit(p, [ev |-> "print", c |-> told[2]]) EXCEPT !.state = Ground]
         ELSE [Emit(p, [ev |-> "print", c |-> REPLACEMENT_CHARACTER])
                 EXCEPT !.state = Ground]

RECURSIVE advance(_, _)

\* process_utf8 that drops a byte the decoder did not consume.
ProcessUtf8Swallows(p, byte) ==
    LET r == Utf8Advance(p.utf8_state, p.utf8_point, byte)
    IN  VtUtf8Receive([p EXCEPT !.utf8_state = r.state,
                                !.utf8_point = r.point], r.told)

\* Parser::process_utf8
process_utf8(p, byte) ==
    LET r == Utf8Advance(p.utf8_state, p.utf8_point, byte)
        q == VtUtf8Receive([p EXCEPT !.utf8_state = r.state,
                                     !.utf8_point = r.point], r.told)
    IN  IF ~r.consumed THEN advance(q, byte) ELSE q

\* Parser::process_end_utf8
process_end_utf8(p) ==
    LET r == Utf8End(p.utf8_state, p.utf8_point)
    IN  VtUtf8Receive([p EXCEPT !.utf8_state = r.state,
                                !.utf8_point = r.point], r.told)

\* Parser::perform_action
perform_action(p, action, byte) ==
    CASE action = ActPrint -> PrintChar(p, byte)
      [] action = ActExecute -> Execute(p, byte)
      [] action = ActHook -> Hook(p, byte)
      [] action = ActPut -> Put(p, byte)
      [] action = ActOscStart -> OscStart(p)
      [] action = ActOscPut -> OscPut(p, byte)
      [] action = ActOscEnd -> OscEnd(p, byte)
      [] action = ActUnhook -> Unhook(p)
      [] action = ActCsiDispatch -> CsiDispatch(p, byte)
      [] action = ActEscDispatch -> EscDispatch(p, byte)
      [] action = ActNone -> p
      [] action = ActIgnore -> p
      [] action = ActCollect -> Collect(p, byte)
      [] action = ActParam -> Param(p, byte)
      [] action = ActClear -> clear(p)
      [] action = ActBeginUtf8 -> process_utf8(p, byte)
      [] action = ActCheckDcsSosPmApc -> CheckDcsSosPmApc(p, byte)

\* maybe_action!: Action::None is skipped.
maybe_action(p, action, byte) ==
    IF action = ActNone THEN p ELSE perform_action(p, action, byte)

\* perform_state_change that treats an action-only entry as a change to the
\* state the parser is in, exit and entry action included.
PerformStateChangeReenters(p, state, action, byte) ==
    LET target == IF state = Anywhere THEN p.state ELSE state
        p1 == maybe_action(p, exit_action(p.state), byte)
        p2 == [p1 EXCEPT !.state = target]
        p3 == maybe_action(p2, action, byte)
    IN  maybe_action(p3, entry_action(p3.state), byte)

\* perform_state_change that runs the transition action before the exit
\* action of the state left.
PerformStateChangeActionFirst(p, state, action, byte) ==
    IF state = Anywhere
    THEN perform_action(p, action, byte)
    ELSE LET p1 == maybe_action(p, action, byte)
             p2 == maybe_action(p1, exit_action(p.state), byte)
             p3 == [p2 EXCEPT !.state = state]
         IN  maybe_action(p3, entry_action(p3.state), byte)

\* perform_state_change that skips the exit action of the state left.
PerformStateChangeNoExit(p, state, action, byte) ==
    IF state = Anywhere
    THEN perform_action(p, action, byte)
    ELSE LET p2 == [p EXCEPT !.state = state]
             p3 == maybe_action(p2, action, byte)
         IN  maybe_action(p3, entry_action(p3.state), byte)

\* Parser::perform_state_change
perform_state_change(p, state, action, byte) ==
    IF state = Anywhere
    THEN perform_action(p, action, byte)
    ELSE LET p1 == maybe_action(p, exit_action(p.state), byte)
             p2 == [p1 EXCEPT !.state = state]
             p3 == maybe_action(p2, action, byte)
         IN  maybe_action(p3, entry_action(p3.state), byte)

\* advance that looks the byte up in the row of the current state alone.
AdvanceOwnRowOnly(p, byte) ==
    IF p.state = Utf8
    THEN process_utf8(p, byte)
    ELSE LET sa == unpack(STATE_CHANGES(p.state, byte))
         IN  perform_state_change(p, sa[1], sa[2], byte)

\* advance that hands every byte from 0x80 up to the UTF-8 decoder, whatever
\* the state.
AdvanceDecodesHigh(p, byte) ==
    IF p.state = Utf8 \/ byte >= 128
    THEN process_utf8(p, byte)
    ELSE LET anywhere == STATE_CHANGES(Anywhere, byte)
             change == IF anywhere = 0 THEN STATE_CHANGES(p.state, byte)
                       ELSE anywhere
             sa == unpack(change)
         IN  perform_state_change(p, sa[1], sa[2], byte)

\* Parser::advance
advance(p, byte) ==
    IF p.state = Utf8
    THEN process_utf8(p, byte)
    ELSE LET anywhere == STATE_CHANGES(Anywhere, byte)
             change == IF anywhere = 0 THEN STATE_CHANGES(p.state, byte)
                       ELSE anywhere
             sa == unpack(change)
         IN  perform_state_change(p, sa[1], sa[2], byte)

\* end that flushes the decoder and leaves every other state as it is.
EndKeepsState(p) == IF p.state = Utf8 THEN process_end_utf8(p) ELSE p

\* end that only returns to Ground, an unfinished character forgotten.
EndForgets(p) == [p EXCEPT !.state = Ground]

\* Parser::end
end(p) ==
    IF p.state = Utf8 THEN process_end_utf8(p)
    ELSE [p EXCEPT !.state = Ground]

\* Parser::set_dcs_sos_pm_apc
set_dcs_sos_pm_apc(p, dcs_sos_pm_apc) ==
    [p EXCEPT !.no_dcs_sos_pm_apc = ~dcs_sos_pm_apc]

(***************************************************************************)
(* ansi.rs: the Processor, a Parser behind the synchronized-update buffer. *)
(* A byte string is a sequence of runs <<byte, count>>, count copies of    *)
(* byte, so that buffers of the size of SYNC_BUFFER_SIZE can be held.  A   *)
(* processor value is a record of                                          *)
(*   parser   the Parser; parser.out collects the handler's events, each   *)
(*            recorded as the dispatch that causes it                      *)
(*   timeout  sync_state.timeout, as the tests' TestSyncHandler keeps it:  *)
(*            the number of set_timeout calls since the latest             *)
(*            clear_timeout; a timeout is pending when it is not 0         *)
(*   buffer   sync_state.buffer                                            *)
(***************************************************************************)
SYNC_BUFFER_SIZE == 2097152

SYNC_ESCAPE_LEN == 8

BSU_CSI == <<27, 91, 63, 50, 48, 50, 54, 104>>

ESU_CSI == <<27, 91, 63, 50, 48, 50, 54, 108>>

\* NamedPrivateMode::SyncUpdate
SyncUpdate == 2026

\* usize::saturating_sub
saturating_sub(a, b) == IF a >= b THEN a - b ELSE 0

\* F applied to the value of x, which is computed once.
With(x, F(_)) == CHOOSE r \in {F(v) : v \in {x}} : TRUE

\* A plain byte sequence as runs.
Runs(bytes) == [i \in 1..Len(bytes) |-> <<bytes[i], 1>>]

RECURSIVE RunLen(_)
RunLen(rs) == IF rs = <<>> THEN 0 ELSE Head(rs)[2] + RunLen(Tail(rs))

\* &rs[k..]
RECURSIVE DropBytes(_, _)
DropBytes(rs, k) ==
    IF k = 0 \/ rs = <<>> THEN rs
    ELSE IF Head(rs)[2] <= k THEN DropBytes(Tail(rs), k - Head(rs)[2])
    ELSE <<<<Head(rs)[1], Head(rs)[2] - k>>>> \o Tail(rs)

\* &rs[..k]
RECURSIVE TakeBytes(_, _)
TakeBytes(rs, k) ==
    IF k = 0 \/ rs = <<>> THEN <<>>
    ELSE IF Head(rs)[2] <= k
         THEN <<Head(rs)>> \o TakeBytes(Tail(rs), k - Head(rs)[2])
    ELSE <<<<Head(rs)[1], k>>>>

\* The offset of the first byte of run i.
RunStart(rs, i) == RunLen(SubSeq(rs, 1, i - 1))

\* rs[o], offsets counted from 0.
RECURSIVE ByteAt(_, _)
ByteAt(rs, o) ==
    IF o < Head(rs)[2] THEN Head(rs)[1]
    ELSE ByteAt(Tail(rs), o - Head(rs)[2])

\* memchr_iter(byte, &rs[start..stop]).rev(): the offsets of byte, last first.
RECURSIVE Descending(_)
Descending(S) ==
    IF S = {} THEN <<>>
    ELSE LET m == CHOOSE x \in S : \A y \in S : y <= x
         IN  <<m>> \o Descending(S \ {m})

\* The offsets at which a byte stands.
OffsetsOf(byte, rs) ==
    UNION {{RunStart(rs, i) + j : j \in 0..(rs[i][2] - 1)} :
              i \in {k \in 1..Len(rs) : rs[k][1] = byte}}

MemchrRev(byte, rs, start, stop) ==
    Descending({o \in OffsetsOf(byte, rs) : start <= o /\ o < stop})

NewProcessor == [parser |-> NewParser, timeout |-> 0, buffer |-> <<>>]

\* A performer that is never told of a synchronized update.
SetsTimeoutNever(e) == 0

\* Performer::csi_dispatch, the handling of synchronized updates: how often
\* a dispatch sets the timeout (and whether it ends the run: terminated).
SetsTimeout(e) ==
    IF /\ e.ev = "csi_dispatch"
       /\ ~(e.ignore \/ Len(e.intermediates) > 2)
       /\ e.action = 104
       /\ e.intermediates = <<63>>
    THEN Cardinality({i \in 1..Len(e.params) : e.params[i] = I64(SyncUpdate)})
    ELSE 0

RECURSIVE SumTimeouts(_)
SumTimeouts(evs) ==
    IF evs = <<>> THEN 0 ELSE SetsTimeout(Head(evs)) + SumTimeouts(Tail(evs))

\* The parser fed a run of equal bytes through a Performer: every byte is
\* advanced in turn, the performer's csi_dispatch sets the timeout, and with
\* `until` the run stops after the byte whose dispatch set terminated.
\* Bytes that leave the parser as it is are taken at once, their events
\* recorded as one repeat.  The result holds the processor, the number of
\* bytes taken and whether the run was stopped.
RECURSIVE ByteRun(_, _, _, _)
ByteRun(pr, byte, count, until) ==
    With(advance(pr.parser, byte), LAMBDA q :
      LET p == pr.parser
          new == SubSeq(q.out, Len(p.out) + 1, Len(q.out))
          sets == SumTimeouts(new)
          pr1 == [pr EXCEPT !.parser = q, !.timeout = @ + sets]
          same == [q EXCEPT !.out = <<>>] = [p EXCEPT !.out = <<>>]
      IN  IF until /\ sets > 0 THEN [pr |-> pr1, n |-> 1, stopped |-> TRUE]
          ELSE IF count = 1 THEN [pr |-> pr1, n |-> 1, stopped |-> FALSE]
          ELSE IF same /\ sets = 0
               THEN [pr |-> [pr1 EXCEPT !.parser =
                               IF new = <<>> THEN q
                               ELSE Emit(q, [ev |-> "repeat", events |-> new,
                                             times |-> count - 1])],
                     n |-> count, stopped |-> FALSE]
          ELSE With(pr1, LAMBDA v :
                 With(ByteRun(v, byte, count - 1, until), LAMBDA r :
                   [r EXCEPT !.n = @ + 1])))

\* The same for a byte string, taken by halves.
RECURSIVE ParserRun(_, _, _)
ParserRun(pr, rs, until) ==
    IF rs = <<>> THEN [pr |-> pr, n |-> 0, stopped |-> FALSE]
    ELSE IF Len(rs) = 1 THEN ByteRun(pr, rs[1][1], rs[1][2], until)
    ELSE With(ParserRun(pr, SubSeq(rs, 1, Len(rs) \div 2), until), LAMBDA a :
           IF a.stopped THEN a
           ELSE With(ParserRun(a.pr, SubSeq(rs, Len(rs) \div 2 + 1, Len(rs)), until),
                     LAMBDA b : [b EXCEPT !.n = @ + a.n]))

\* Parser::advance_until_terminated
advance_until_terminated(pr, bytes) == ParserRun(pr, bytes, TRUE)

\* Parser::advance over a slice
advance_slice(pr, bytes) == ParserRun(pr, bytes, FALSE).pr

\* stop_sync_internal that, with no new BSU, clears the timeout and leaves
\* the buffer as it is.
StopSyncInternalKeepsBuffer(pr, bsu_offset) ==
    LET buffer == pr.buffer
        offset == IF bsu_offset = <<>> THEN RunLen(buffer) ELSE bsu_offset[1]
    IN  With(advance_slice([pr EXCEPT !.buffer = <<>>], TakeBytes(buffer, offset)),
             LAMBDA pr1 :
               IF bsu_offset # <<>>
               THEN [pr1 EXCEPT !.buffer = DropBytes(buffer, offset)]
               ELSE [pr1 EXCEPT !.parser = Emit(@, [ev |-> "unset_private_mode",
                                                    mode |-> SyncUpdate]),
                                !.timeout = 0,
                                !.buffer = buffer])

\* stop_sync_internal that keeps the bytes it has parsed in the buffer when a
\* new BSU is present (no copy_within, no truncate).
StopSyncInternalKeepsParsed(pr, bsu_offset) ==
    LET buffer == pr.buffer
        offset == IF bsu_offset = <<>> THEN RunLen(buffer) ELSE bsu_offset[1]
    IN  With(advance_slice([pr EXCEPT !.buffer = <<>>], TakeBytes(buffer, offset)),
             LAMBDA pr1 :
               IF bsu_offset # <<>>
               THEN [pr1 EXCEPT !.buffer = buffer]
               ELSE [pr1 EXCEPT !.parser = Emit(@, [ev |-> "unset_private_mode",
                                                    mode |-> SyncUpdate]),
                                !.timeout = 0,
                                !.buffer = <<>>])

\* stop_sync_internal that parses the buffered bytes and leaves the mode, the
\* timeout and the buffer as they are.
StopSyncInternalOnlyParses(pr, bsu_offset) ==
    LET buffer == pr.buffer
        offset == IF bsu_offset = <<>> THEN RunLen(buffer) ELSE bsu_offset[1]
        pr1 == advance_slice([pr EXCEPT !.buffer = <<>>], TakeBytes(buffer, offset))
    IN  [pr1 EXCEPT !.buffer = DropBytes(buffer, offset)]

\* Processor::stop_sync_internal; bsu_offset is <<>> for None and <<offset>>
\* for Some(offset).
stop_sync_internal(pr, bsu_offset) ==
    LET buffer == pr.buffer
        offset == IF bsu_offset = <<>> THEN RunLen(buffer) ELSE bsu_offset[1]
    IN  With(advance_slice([pr EXCEPT !.buffer = <<>>], TakeBytes(buffer, offset)),
             LAMBDA pr1 :
               IF bsu_offset # <<>>
               THEN [pr1 EXCEPT !.buffer = DropBytes(buffer, offset)]
               ELSE [pr1 EXCEPT !.parser = Emit(@, [ev |-> "unset_private_mode",
                                                    mode |-> SyncUpdate]),
                                !.timeout = 0,
                                !.buffer = <<>>])

\* Processor::stop_sync
stop_sync(pr) == stop_sync_internal(pr, <<>>)

\* The loop with a BSU that ends the update like an ESU.
RECURSIVE SyncCsiLoopBsuEnds(_, _, _)
SyncCsiLoopBsuEnds(pr, offsets, bsu_offset) ==
    IF offsets = <<>> THEN pr
    ELSE LET offset == Head(offsets)
             escape == [k \in 1..SYNC_ESCAPE_LEN |-> ByteAt(pr.buffer, offset + k - 1)]
         IN  IF escape = BSU_CSI \/ escape = ESU_CSI
             THEN stop_sync_internal(pr, bsu_offset)
             ELSE SyncCsiLoopBsuEnds(pr, Tail(offsets), bsu_offset)

\* The loop with an ESU that forgets the BSU found behind it.
RECURSIVE SyncCsiLoopForgetsBsu(_, _, _)
SyncCsiLoopForgetsBsu(pr, offsets, bsu_offset) ==
    IF offsets = <<>> THEN pr
    ELSE LET offset == Head(offsets)
             escape == [k \in 1..SYNC_ESCAPE_LEN |-> ByteAt(pr.buffer, offset + k - 1)]
         IN  IF escape = BSU_CSI
             THEN SyncCsiLoopForgetsBsu([pr EXCEPT !.timeout = @ + 1], Tail(offsets), <<offset>>)
             ELSE IF escape = ESU_CSI
             THEN stop_sync_internal(pr, <<>>)
             ELSE SyncCsiLoopForgetsBsu(pr, Tail(offsets), bsu_offset)

\* The loop of advance_sync_csi over the offsets of ESC, last first.
RECURSIVE SyncCsiLoop(_, _, _)
SyncCsiLoop(pr, offsets, bsu_offset) ==
    IF offsets = <<>> THEN pr
    ELSE LET offset == Head(offsets)
             escape == [k \in 1..SYNC_ESCAPE_LEN |-> ByteAt(pr.buffer, offset + k - 1)]
         IN  IF escape = BSU_CSI
             THEN SyncCsiLoop([pr EXCEPT !.timeout = @ + 1], Tail(offsets), <<offset>>)
             ELSE IF escape = ESU_CSI
             THEN stop_sync_internal(pr, bsu_offset)
             ELSE SyncCsiLoop(pr, Tail(offsets), bsu_offset)

\* advance_sync_csi that looks for escapes in the new bytes only.
AdvanceSyncCsiNewBytesOnly(pr, new_bytes) ==
    LET buffer_len == RunLen(pr.buffer)
        start_offset == buffer_len - new_bytes
        end_offset == saturating_sub(buffer_len, SYNC_ESCAPE_LEN - 1)
    IN  SyncCsiLoop(pr, MemchrRev(27, pr.buffer, start_offset, end_offset), <<>>)

\* Processor::advance_sync_csi
advance_sync_csi(pr, new_bytes) ==
    LET buffer_len == RunLen(pr.buffer)
        start_offset == saturating_sub(buffer_len - new_bytes, SYNC_ESCAPE_LEN - 1)
        end_offset == saturating_sub(buffer_len, SYNC_ESCAPE_LEN - 1)
    IN  SyncCsiLoop(pr, MemchrRev(27, pr.buffer, start_offset, end_offset), <<>>)

\* advance_sync that, at the limit, ends the update and reports no byte as
\* processed, leaving the chunk to the next turn of the caller's loop.
AdvanceSyncFlushOnly(pr, bytes) ==
    IF RunLen(pr.buffer) + RunLen(bytes) >= SYNC_BUFFER_SIZE - 1
    THEN [pr |-> stop_sync_internal(pr, <<>>), n |-> 0]
    ELSE With([pr EXCEPT !.buffer = @ \o bytes], LAMBDA extended :
           [pr |-> advance_sync_csi(extended, RunLen(bytes)),
            n |-> RunLen(bytes)])

\* advance_sync that buffers nothing: the update is stopped and the bytes
\* are parsed at once.
AdvanceSyncUnbuffered(pr, bytes) ==
    advance_until_terminated(stop_sync_internal(pr, <<>>), bytes)

\* Processor::advance_sync
advance_sync(pr, bytes) ==
    IF RunLen(pr.buffer) + RunLen(bytes) >= SYNC_BUFFER_SIZE - 1
    THEN With(stop_sync_internal(pr, <<>>), LAMBDA stopped :
           advance_until_terminated(stopped, bytes))
    ELSE With([pr EXCEPT !.buffer = @ \o bytes], LAMBDA extended :
           [pr |-> advance_sync_csi(extended, RunLen(bytes)),
            n |-> RunLen(bytes)])

\* Processor::advance
RECURSIVE ProcessorAdvance(_, _)
ProcessorAdvance(pr, bytes) ==
    IF bytes = <<>> THEN pr
    ELSE With(IF pr.timeout # 0
              THEN advance_sync(pr, bytes)
              ELSE advance_until_terminated(pr, bytes),
              LAMBDA r : With(DropBytes(bytes, r.n), LAMBDA rest :
                           ProcessorAdvance(r.pr, rest)))

(***************************************************************************)
(* The state: the parser under test and an observer of its input.          *)
(*   parser  the Parser, with the events of the latest call in parser.out  *)
(*   seen    what the input since the latest Clear / OscStart consisted    *)
(*           of, read off the bytes fed (never off the parser's buffers):  *)
(*           inter   the bytes handed to Collect                           *)
(*           fields  the digit strings of the parameters closed by ';'     *)
(*           cur     the digits of the parameter still open                *)
(*           osc     the bytes handed to OscPut                            *)
(*           cut     whether the latest ESC broke off a sequence that had  *)
(*                   collected something and was not yet dispatched        *)
(*           hooked, unhooked  (kept by the steps of SpecDcs, read off the *)
(*                   events) whether a hook was delivered with no unhook   *)
(*                   since, and whether an unhook was ever delivered       *)
(*           ended   whether the stream was closed by a call of end        *)
(*   input   the bytes still to be fed: the rest of a scripted sequence,   *)
(*           or the part of the latest chunk the reference parser has not  *)
(*           been given yet                                                *)
(*   buf     the buffer the bytes are fed from: the read buffer of the     *)
(*           chunked feed, or a whole scripted stream                      *)
(*   ref     a second parser, fed the same stream one byte per step; in    *)
(*           SpecSplit, once a sequence is being split, the record of      *)
(*           start (the processor before it), seq (its bytes) and whole    *)
(*           (the processor after one call with all of it); in SpecPack    *)
(*           the pair unpacked, in SpecUtf8 the UTF-8 decoder on its own   *)
(*   fed     the number of bytes of buf taken so far                       *)
(*   processor  the Processor of ansi.rs, with every event its handler has  *)
(*           received in processor.parser.out                              *)
(***************************************************************************)
VARIABLES parser, seen, input, buf, ref, fed, processor

vars == <<parser, seen, input, buf, ref, fed, processor>>

\* Bounds of the exploration.
MaxCollect == 3
MaxSemis == 17
MaxDigits == 1
MaxOscRaw == 2
MaxOscSemis == 17

\* The bytes fed to explore control sequences: ESC [ P ; 1 $ m ST
InputBytes == {27, 91, 80, 59, 49, 36, 109, 156}

NewSeen ==
    [inter |-> <<>>, fields |-> <<>>, cur |-> <<>>, osc |-> <<>>, cut |-> FALSE,
     hooked |-> FALSE, unhooked |-> FALSE, ended |-> FALSE]

\* The (state, action) entry the table holds for a byte.
Lookup(st, byte) ==
    LET est == IF st = Utf8 THEN Ground ELSE st
        anywhere == STATE_CHANGES(Anywhere, byte)
    IN  unpack(IF anywhere = 0 THEN STATE_CHANGES(est, byte) ELSE anywhere)

RECURSIVE SumLen(_)
SumLen(ss) == IF ss = <<>> THEN 0 ELSE Len(Head(ss)) + SumLen(Tail(ss))

Semis(bytes) == Cardinality({i \in 1..Len(bytes) : bytes[i] = 59})

\* The states in which a control sequence is being collected.
Collecting ==
    {EscapeIntermediate, CsiEntry, CsiParam, CsiIntermediate,
     DcsEntry, DcsParam, DcsIntermediate}

\* The observer's step for a byte fed in VT state st.
Observe(o, st, byte, disabled) ==
    LET sa == Lookup(st, byte)
        o1 == CASE sa[2] = ActCollect -> [o EXCEPT !.inter = Append(@, byte)]
                [] sa[2] = ActParam /\ byte = 59 ->
                     [o EXCEPT !.fields = Append(@, o.cur), !.cur = <<>>]
                [] sa[2] = ActParam /\ byte # 59 ->
                     [o EXCEPT !.cur = Append(@, byte - 48)]
                [] sa[2] = ActOscPut -> [o EXCEPT !.osc = Append(@, byte)]
                [] OTHER -> o
        o2 == IF sa[1] = Escape
              THEN [o1 EXCEPT !.cut = st \in Collecting
                                      /\ <<o.inter, o.fields, o.cur>> # <<<<>>, <<>>, <<>>>>]
              ELSE o1
        o3 == IF \/ entry_action(sa[1]) = ActClear
                 \/ sa[2] = ActCheckDcsSosPmApc /\ disabled
              THEN [o2 EXCEPT !.inter = <<>>, !.fields = <<>>, !.cur = <<>>]
              ELSE o2
    IN  IF entry_action(sa[1]) = ActOscStart THEN [o3 EXCEPT !.osc = <<>>] ELSE o3

\* The bytes the exploration feeds in the current state.
Admitted(byte) ==
    LET sa == Lookup(parser.state, byte)
    IN  /\ sa[2] = ActCollect => Len(seen.inter) < MaxCollect
        /\ sa[2] = ActParam /\ byte = 59 => Len(seen.fields) < MaxSemis
        /\ sa[2] = ActParam /\ byte # 59 =>
             SumLen(seen.fields) + Len(seen.cur) < MaxDigits
        /\ sa[2] = ActOscPut /\ byte = 59 => Semis(seen.osc) < MaxOscSemis
        /\ sa[2] = ActOscPut /\ byte # 59 =>
             Len(seen.osc) - Semis(seen.osc) < MaxOscRaw

Init ==
    /\ parser = NewParser
    /\ seen = NewSeen
    /\ input = <<>>
    /\ buf = <<>>
    /\ ref = NewParser
    /\ fed = 0
    /\ processor = NewProcessor

\* One call parser.advance(&mut performer, byte) on the parser p.
Call(p, byte) == advance([p EXCEPT !.out = <<>>], byte)

\* parser.advance(&mut performer, byte)
Advance(byte) ==
    /\ Admitted(byte)
    /\ parser' = Call(parser, byte)
    /\ seen' = Observe(seen, parser.state, byte, parser.no_dcs_sos_pm_apc)
    /\ UNCHANGED <<input, buf, ref, fed, processor>>

\* parser.end(&mut performer)
End ==
    /\ parser' = end([parser EXCEPT !.out = <<>>])
    /\ UNCHANGED <<seen, input, buf, ref, fed, processor>>

\* parser.set_dcs_sos_pm_apc(dcs_sos_pm_apc)
SetDcsSosPmApc(dcs_sos_pm_apc) ==
    /\ parser' = set_dcs_sos_pm_apc([parser EXCEPT !.out = <<>>], dcs_sos_pm_apc)
    /\ UNCHANGED <<seen, input, buf, ref, fed, processor>>

Next ==
    \/ \E byte \in InputBytes : Advance(byte)
    \/ End

Spec == Init /\ [][Next]_vars

(***************************************************************************)
(* What the observer expects of a dispatch.                                *)
(***************************************************************************)
Min(a, b) == IF a <= b THEN a ELSE b

Max(a, b) == IF a >= b THEN a ELSE b

FirstN(s, n) == SubSeq(s, 1, Min(Len(s), n))

RECURSIVE StripZeros(_)
StripZeros(d) == IF d # <<>> /\ Head(d) = 0 THEN StripZeros(Tail(d)) ELSE d

RECURSIVE NatOf(_)
NatOf(d) == IF d = <<>> THEN 0 ELSE NatOf(SubSeq(d, 1, Len(d) - 1)) * 10 + d[Len(d)]

\* The decimal digits of 2^63 - 1.
DigitsOfMax == <<9, 2, 2, 3, 3, 7, 2, 0, 3, 6, 8, 5, 4, 7, 7, 5, 8, 0, 7>>

\* d > e for digit strings of one length.
RECURSIVE DigitsGreater(_, _)
DigitsGreater(d, e) ==
    IF d = <<>> THEN FALSE
    ELSE IF Head(d) # Head(e) THEN Head(d) > Head(e)
    ELSE DigitsGreater(Tail(d), Tail(e))

\* min(decimal value of the digit string, 2^63 - 1), read positionally.
DecMin(digs) ==
    LET d == StripZeros(digs)
        n == Len(d)
    IN  IF n > 19 \/ (n = 19 /\ DigitsGreater(d, DigitsOfMax))
        THEN I64_MAX
        ELSE <<NatOf(SubSeq(d, 1, n - 14)),
               NatOf(SubSeq(d, Max(1, n - 13), n - 7)),
               NatOf(SubSeq(d, Max(1, n - 6), n))>>

\* The parameters of the sequence seen so far, its open field included.
SeenFields == Append(seen.fields, seen.cur)

SeenParams ==
    LET f == FirstN(SeenFields, MAX_PARAMS)
    IN  [i \in 1..Len(f) |-> DecMin(f[i])]

SeenIntermediates == FirstN(seen.inter, MAX_INTERMEDIATES)

OutOf(kinds) == {i \in 1..Len(parser.out) : parser.out[i].ev \in kinds}

(***************************************************************************)
(* OSC strings: the same calls over the bytes ESC ] ; BEL CAN.             *)
(***************************************************************************)
OscBytes == {27, 93, 59, 7, 24}

NextOsc ==
    \/ \E byte \in OscBytes : Advance(byte)
    \/ End

SpecOsc == Init /\ [][NextOsc]_vars

\* The fields of a byte string split at ';'.
RECURSIVE SplitSemis(_)
SplitSemis(bytes) ==
    IF bytes = <<>> THEN <<<<>>>>
    ELSE LET init == SplitSemis(SubSeq(bytes, 1, Len(bytes) - 1))
             b == bytes[Len(bytes)]
         IN  IF b = 59 THEN Append(init, <<>>)
             ELSE [init EXCEPT ![Len(init)] = Append(@, b)]

(***************************************************************************)
(* Numeric parameters: one scripted sequence ESC [ d1 ; d2 m or            *)
(* ESC P d1 ; d2 m per behaviour, its digit strings drawn around 2^63 - 1. *)
(***************************************************************************)
MaxNines == 20
MaxZeros == 2

Nines(n) == [i \in 1..n |-> 9]

Zeros(n) == [i \in 1..n |-> 0]

\* 922337203685477580d for each digit d, the strings of nines, and 0.
NumTails ==
    {[DigitsOfMax EXCEPT ![19] = d] : d \in 0..9}
        \cup {Nines(n) : n \in 1..MaxNines}
        \cup {<<>>, <<1, 0>>}

NumStrings == {Zeros(z) \o t : z \in 0..MaxZeros, t \in NumTails}

DigitBytes(d) == [i \in 1..Len(d) |-> 48 + d[i]]

NumInputs ==
    {<<27, intro>> \o DigitBytes(d1) \o rest \o <<109>> :
        intro \in {91, 80},
        d1 \in NumStrings,
        rest \in {<<>>, <<59, 53>>, <<59>> \o DigitBytes(Nines(MaxNines))}}

InitNum ==
    /\ parser = NewParser
    /\ seen = NewSeen
    /\ input \in NumInputs
    /\ buf = <<>>
    /\ ref = NewParser
    /\ fed = 0
    /\ processor = NewProcessor

\* parser.advance(&mut performer, byte) for the next byte of the script.
Feed ==
    /\ input # <<>>
    /\ parser' = Call(parser, Head(input))
    /\ seen' = Observe(seen, parser.state, Head(input), parser.no_dcs_sos_pm_apc)
    /\ input' = Tail(input)
    /\ UNCHANGED <<buf, ref, fed, processor>>

NextNum == Feed

SpecNum == InitNum /\ [][NextNum]_vars

(***************************************************************************)
(* Chunked feeding (examples/parselog.rs): read fills a prefix of buf and  *)
(* the parser is advanced over that prefix.  buf starts uninitialised, so  *)
(* its first contents are arbitrary.  ref is given the same bytes one call *)
(* per step.                                                               *)
(***************************************************************************)
BufLen == 2
MaxStream == 4

\* ESC [ 1 m and the two bytes of U+00E9
ChunkBytes == {27, 91, 49, 109, 195, 169}

RECURSIVE FeedBytes(_, _)
FeedBytes(p, bytes) ==
    IF bytes = <<>> THEN p
    ELSE FeedBytes(advance(p, Head(bytes)), Tail(bytes))

\* The loop fed the whole of buf instead of the n bytes read.
FeedWholeBuf(p, b, n) == FeedBytes([p EXCEPT !.out = <<>>], b)

\* for byte in &buf[..n] { statemachine.advance(&mut parser, *byte); }
FeedChunk(p, b, n) == FeedBytes([p EXCEPT !.out = <<>>], SubSeq(b, 1, n))

InitChunk ==
    /\ parser = NewParser
    /\ seen = NewSeen
    /\ input = <<>>
    /\ buf \in [1..BufLen -> ChunkBytes]
    /\ ref = NewParser
    /\ fed = 0
    /\ processor = NewProcessor

\* Ok(n) = handle.read(&mut buf), then the loop over buf[..n].
ReadChunk(chunk) ==
    /\ input = <<>>
    /\ fed + Len(chunk) <= MaxStream
    /\ buf' = chunk \o SubSeq(buf, Len(chunk) + 1, Len(buf))
    /\ parser' = FeedChunk(parser, buf', Len(chunk))
    /\ input' = chunk
    /\ ref' = [ref EXCEPT !.out = <<>>]
    /\ fed' = fed + Len(chunk)
    /\ UNCHANGED <<seen, processor>>

\* The reference parser takes the next byte of the chunk in a call of its own.
RefStep ==
    /\ input # <<>>
    /\ ref' = advance(ref, Head(input))
    /\ input' = Tail(input)
    /\ UNCHANGED <<parser, seen, buf, fed, processor>>

NextChunk ==
    \/ \E n \in 1..BufLen : \E chunk \in [1..n -> ChunkBytes] : ReadChunk(chunk)
    \/ RefStep

SpecChunk == InitChunk /\ [][NextChunk]_vars

(***************************************************************************)
(* The fixed-capacity build: one scripted OSC string per behaviour,        *)
(* ESC ] [5 2 ; s] a...a [; a] terminator, its run of 'a' ending a few     *)
(* bytes short of, at, or past the capacity of osc_raw.                    *)
(***************************************************************************)
MaxShort == 2
MaxOver == 2

Fill(n) == [i \in 1..n |-> 97]

CapInputs ==
    {<<27, 93>> \o pre \o Fill(n) \o post \o <<term>> :
        pre \in {<<>>, <<53, 50, 59, 115>>},
        n \in (MAX_OSC_RAW - MaxShort)..(MAX_OSC_RAW + MaxOver),
        post \in {<<>>, <<59, 97>>},
        term \in {7, 27}}

InitCap ==
    /\ parser = [NewParser EXCEPT !.no_std = TRUE]
    /\ seen = NewSeen
    /\ input \in CapInputs
    /\ buf = <<>>
    /\ ref = NewParser
    /\ fed = 0
    /\ processor = NewProcessor

NextCap == Feed

SpecCap == InitCap /\ [][NextCap]_vars

\* The bytes of a string other than ';'.
NonSemi(bytes) == SelectSeq(bytes, LAMBDA b : b # 59)

\* The position of the j-th ';' of a string.
NthSemi(bytes, j) ==
    CHOOSE i \in 1..Len(bytes) :
       /\ bytes[i] = 59
       /\ Cardinality({x \in 1..i : bytes[x] = 59}) = j

\* The ';'-separated fields of a string, by position.
FieldsOf(bytes) ==
    [j \in 1..(Semis(bytes) + 1) |->
       SubSeq(bytes,
              IF j = 1 THEN 1 ELSE NthSemi(bytes, j - 1) + 1,
              IF j > Semis(bytes) THEN Len(bytes) ELSE NthSemi(bytes, j) - 1)]

\* The part of an OSC string read before osc_raw was full.
BeforeFull(bytes) ==
    IF Len(NonSemi(bytes)) <= MAX_OSC_RAW THEN bytes
    ELSE SubSeq(bytes, 1,
                CHOOSE i \in 1..Len(bytes) :
                   /\ bytes[i] # 59
                   /\ Len(NonSemi(SubSeq(bytes, 1, i))) = MAX_OSC_RAW)

(***************************************************************************)
(* Scripted streams fed from buf, one byte per call; fed counts the bytes  *)
(* given to the parser.                                                    *)
(***************************************************************************)
\* parser.advance(&mut performer, buf[fed]) for the next byte of buf.
FeedBuf ==
    /\ fed < Len(buf)
    /\ parser' = Call(parser, buf[fed + 1])
    /\ seen' = Observe(seen, parser.state, buf[fed + 1], parser.no_dcs_sos_pm_apc)
    /\ fed' = fed + 1
    /\ UNCHANGED <<input, buf, ref, processor>>

(***************************************************************************)
(* Control, OSC and DCS sequences side by side: every stream of up to       *)
(* MaxOrder bytes over ESC [ ] P 1 ; x CAN, fed byte by byte.              *)
(***************************************************************************)
MaxOrder == 4

OrderBytes == {27, 91, 93, 80, 49, 59, 120, 24}

\* All byte strings over a set, up to a length.
SeqsUpTo(S, n) == UNION {[1..k -> S] : k \in 0..n}

InitOrder ==
    /\ parser = NewParser
    /\ seen = NewSeen
    /\ input \in SeqsUpTo(OrderBytes, MaxOrder)
    /\ buf = <<>>
    /\ ref = NewParser
    /\ fed = 0
    /\ processor = NewProcessor

NextOrder == Feed

SpecOrder == InitOrder /\ [][NextOrder]_vars

(***************************************************************************)
(* Every state of the parser: the streams of up to MaxReach bytes over     *)
(* ESC CAN SUB [ ] P X 1 : $ m 0xC2, fed byte by byte, reach all of them.  *)
(***************************************************************************)
MaxReach == 3

ReachBytes == {27, 24, 26, 91, 93, 80, 88, 49, 58, 36, 109, 194}

InitReach ==
    /\ parser = NewParser
    /\ seen = NewSeen
    /\ input \in SeqsUpTo(ReachBytes, MaxReach)
    /\ buf = <<>>
    /\ ref = NewParser
    /\ fed = 0
    /\ processor = NewProcessor

NextReach == Feed

SpecReach == InitReach /\ [][NextReach]_vars


(***************************************************************************)
(* OSC strings holding bytes from 0x80 up: ESC ] body terminator, the body *)
(* over ; a 0x80 0x9C 0xAB 0xC2 0xE6 0xFF.                                 *)
(***************************************************************************)
MaxBody == 3

OscBodyBytes == {59, 97, 128, 156, 171, 194, 230, 255}

OscHighInputs ==
    {<<27, 93>> \o body \o <<term>> :
        body \in SeqsUpTo(OscBodyBytes, MaxBody), term \in {7, 27}}

InitOscHigh ==
    /\ parser = NewParser
    /\ seen = NewSeen
    /\ input = <<>>
    /\ buf \in OscHighInputs
    /\ ref = NewParser
    /\ fed = 0
    /\ processor = NewProcessor

NextOscHigh == FeedBuf

SpecOscHigh == InitOscHigh /\ [][NextOscHigh]_vars

(***************************************************************************)
(* DCS strings: advance calls over the bytes ESC P 1 ; | ST CAN, with the  *)
(* observer following the hook and unhook events.                          *)
(***************************************************************************)
DcsBytes == {27, 80, 49, 59, 124, 156, 24}

\* Whether a hook is open after the events evs, given whether one was before.
RECURSIVE HookedAfter(_, _)
HookedAfter(h, evs) ==
    IF evs = <<>> THEN h
    ELSE HookedAfter(CASE Head(evs).ev = "hook" -> TRUE
                       [] Head(evs).ev = "unhook" -> FALSE
                       [] OTHER -> h,
                     Tail(evs))

AdvanceDcs(byte) ==
    /\ Admitted(byte)
    /\ parser' = Call(parser, byte)
    /\ seen' = [Observe(seen, parser.state, byte, parser.no_dcs_sos_pm_apc)
                  EXCEPT !.hooked = HookedAfter(seen.hooked, parser'.out),
                         !.unhooked = seen.unhooked
                                        \/ \E i \in 1..Len(parser'.out) :
                                              parser'.out[i].ev = "unhook"]
    /\ UNCHANGED <<input, buf, ref, fed, processor>>

NextDcs == \E byte \in DcsBytes : AdvanceDcs(byte)

SpecDcs == Init /\ [][NextDcs]_vars

\* Whether the events evs keep hook and unhook alternating and every put
\* inside a hook, given whether a hook was open before them.
RECURSIVE DcsOrder(_, _)
DcsOrder(h, evs) ==
    IF evs = <<>> THEN TRUE
    ELSE CASE Head(evs).ev = "hook" -> ~h /\ DcsOrder(TRUE, Tail(evs))
           [] Head(evs).ev = "unhook" -> h /\ DcsOrder(FALSE, Tail(evs))
           [] Head(evs).ev = "put" -> h /\ DcsOrder(h, Tail(evs))
           [] OTHER -> DcsOrder(h, Tail(evs))

(***************************************************************************)
(* Opaque sequences switched on and off: advance over the bytes            *)
(* ESC P X ^ _ $ | ST, and set_dcs_sos_pm_apc at any point.                *)
(***************************************************************************)
OpaqueBytes == {27, 80, 88, 94, 95, 36, 124, 156}

NextOpaque ==
    \/ \E byte \in OpaqueBytes : Advance(byte)
    \/ \E dcs_sos_pm_apc \in BOOLEAN : SetDcsSosPmApc(dcs_sos_pm_apc)

SpecOpaque == Init /\ [][NextOpaque]_vars

(***************************************************************************)
(* Text streams: a scripted stream is fed to the parser and to ref, whose  *)
(* out is never emptied and so holds every event since the start; the      *)
(* stream is closed by one call of end.                                    *)
(***************************************************************************)
\* Every event a sequence of advance calls delivers, kept in out.
FeedRef ==
    /\ fed < Len(buf)
    /\ parser' = Call(parser, buf[fed + 1])
    /\ ref' = advance(ref, buf[fed + 1])
    /\ fed' = fed + 1
    /\ UNCHANGED <<seen, input, buf, processor>>

\* parser.end(&mut performer) after the last byte of the stream.
EndBuf ==
    /\ fed = Len(buf)
    /\ ~seen.ended
    /\ parser' = end([parser EXCEPT !.out = <<>>])
    /\ ref' = end(ref)
    /\ seen' = [seen EXCEPT !.ended = TRUE]
    /\ UNCHANGED <<input, buf, fed, processor>>

\* The well-formed UTF-8 byte sequences (Unicode, table 3-7): the length a
\* first byte announces (0 for a byte that begins no sequence) and the range
\* of the second byte.
SeqLen(b1) ==
    IF b1 \in 0..127 THEN 1
    ELSE IF b1 \in 194..223 THEN 2
    ELSE IF b1 \in 224..239 THEN 3
    ELSE IF b1 \in 240..244 THEN 4
    ELSE 0

SecondRange(b1) ==
    CASE b1 = 224 -> 160..191
      [] b1 = 237 -> 128..159
      [] b1 = 240 -> 144..191
      [] b1 = 244 -> 128..143
      [] OTHER -> 128..191

\* How many leading bytes of bs follow table 3-7 as the start of one sequence.
Matched(bs) ==
    LET n == SeqLen(bs[1])
        ok(i) == IF i = 2 THEN bs[i] \in SecondRange(bs[1]) ELSE bs[i] \in 128..191
        fits == {k \in 1..Min(n, Len(bs)) : \A i \in 2..k : ok(i)}
    IN  IF n = 0 THEN 0 ELSE CHOOSE k \in fits : \A j \in fits : j <= k

\* The scalar value of one well-formed sequence.
Scalar(s) ==
    CASE Len(s) = 1 -> s[1]
      [] Len(s) = 2 -> (s[1] - 192) * 64 + (s[2] - 128)
      [] Len(s) = 3 -> (s[1] - 224) * 4096 + (s[2] - 128) * 64 + (s[3] - 128)
      [] Len(s) = 4 -> (s[1] - 240) * 262144 + (s[2] - 128) * 4096
                         + (s[3] - 128) * 64 + (s[4] - 128)

Drop(bs, n) == SubSeq(bs, n + 1, Len(bs))

\* The reference lossy decoding (String::from_utf8_lossy): one item per
\* well-formed sequence and one U+FFFD, marked not ok, per maximal ill-formed
\* subpart.
RECURSIVE RefDecode(_)
RefDecode(bs) ==
    IF bs = <<>> THEN <<>>
    ELSE LET n == SeqLen(bs[1])
             k == Matched(bs)
         IN  IF n > 0 /\ k = n
             THEN <<[c |-> Scalar(SubSeq(bs, 1, n)), ok |-> TRUE]>>
                     \o RefDecode(Drop(bs, n))
             ELSE <<[c |-> REPLACEMENT_CHARACTER, ok |-> FALSE]>>
                     \o RefDecode(Drop(bs, Max(k, 1)))

Lossy(bs) == LET d == RefDecode(bs) IN [i \in 1..Len(d) |-> d[i].c]

\* Whether bs stops inside a multi-byte sequence: its last ill-formed subpart
\* is the unfinished start of a well-formed sequence.
RECURSIVE StopsInside(_)
StopsInside(bs) ==
    IF bs = <<>> THEN FALSE
    ELSE LET n == SeqLen(bs[1])
             k == Matched(bs)
         IN  IF n > 0 /\ k = n THEN StopsInside(Drop(bs, n))
             ELSE IF k = Len(bs) THEN TRUE
             ELSE StopsInside(Drop(bs, Max(k, 1)))

\* The encoding of a code point (Unicode, table 3-6).
Encode(c) ==
    IF c < 128 THEN <<c>>
    ELSE IF c < 2048 THEN <<192 + (c \div 64), 128 + (c % 64)>>
    ELSE IF c < 65536
         THEN <<224 + (c \div 4096), 128 + ((c \div 64) % 64), 128 + (c % 64)>>
    ELSE <<240 + (c \div 262144), 128 + ((c \div 4096) % 64),
           128 + ((c \div 64) % 64), 128 + (c % 64)>>

RECURSIVE EncodeAll(_)
EncodeAll(cs) == IF cs = <<>> THEN <<>> ELSE Encode(Head(cs)) \o EncodeAll(Tail(cs))

\* The characters a performer like the tests' PrintDispatcher collects:
\* print(c) gives c and execute(b) gives b.
Printed(evs) ==
    LET chars == SelectSeq(evs, LAMBDA e : e.ev \in {"print", "execute"})
    IN  [i \in 1..Len(chars) |->
           IF chars[i].ev = "print" THEN chars[i].c ELSE chars[i].byte]

Prints(cs) == [i \in 1..Len(cs) |-> [ev |-> "print", c |-> cs[i]]]

(***************************************************************************)
(* Valid UTF-8 strings: the encodings of up to MaxChars code points taken  *)
(* from the ends of the ranges of each encoded length, with LF and ESC.    *)
(***************************************************************************)
MaxChars == 2

CodePoints ==
    {10, 27, 32, 65, 127, 128, 159, 2047, 2048, 4095, 4096, 55295, 57344,
     65533, 65535, 65536, 262143, 262144, 1048576, 1114111}

ValidInputs == {EncodeAll(cs) : cs \in SeqsUpTo(CodePoints, MaxChars)}

InitValid ==
    /\ parser = NewParser
    /\ seen = NewSeen
    /\ input = <<>>
    /\ buf \in ValidInputs
    /\ ref = NewParser
    /\ fed = 0
    /\ processor = NewProcessor

NextValid == FeedRef

SpecValid == InitValid /\ [][NextValid]_vars

(***************************************************************************)
(* Arbitrary text: every byte string up to MaxText bytes over              *)
(*   LF ESC A P ] 80 90 A0 C2 E0 E1 ED F0 F1 F4 F5                         *)
(* and inputs of the tests parse_misc_invalid_utf8 and                     *)
(* how_many_replacement_characters, each followed by end.                  *)
(***************************************************************************)
MaxText == 3

TextBytes ==
    {10, 27, 65, 80, 93, 128, 144, 160, 194, 224, 225, 237, 240, 241, 244, 245}

TextTests ==
    {<<194, 65, 225, 128, 66, 241, 128, 128, 67>>,
     <<244, 144>>,
     <<237, 160>>,
     <<194, 24, 194, 0, 194, 26>>,
     <<240, 159, 146, 169, 128>>,
     <<226, 152, 131, 128>>,
     <<240, 128, 128, 128>>,
     <<237, 160, 189, 237, 178, 169>>,
     <<240, 159, 146>>}

TextInputs == SeqsUpTo(TextBytes, MaxText) \cup TextTests

InitText ==
    /\ parser = NewParser
    /\ seen = NewSeen
    /\ input = <<>>
    /\ buf \in TextInputs
    /\ ref = NewParser
    /\ fed = 0
    /\ processor = NewProcessor

NextText == FeedRef \/ EndBuf

SpecText == InitText /\ [][NextText]_vars

(***************************************************************************)
(* A stream ended once: the parser is fed bytes of ESC [ ] P $ m C2, then   *)
(* end is called, and from then on the parser and ref, a new parser, are   *)
(* fed the same bytes.                                                     *)
(***************************************************************************)
EndBytes == {27, 91, 93, 80, 36, 109, 194}

\* parser.end(&mut performer), once; ref becomes a new parser, shown the
\* events of this call.
EndOnce ==
    /\ ~seen.ended
    /\ parser' = end([parser EXCEPT !.out = <<>>])
    /\ ref' = [NewParser EXCEPT !.out = parser'.out]
    /\ seen' = [seen EXCEPT !.ended = TRUE]
    /\ UNCHANGED <<input, buf, fed, processor>>

\* The same byte given to the ended parser and to the new one.
AdvanceBoth(byte) ==
    /\ seen.ended
    /\ Admitted(byte)
    /\ parser' = Call(parser, byte)
    /\ ref' = Call(ref, byte)
    /\ seen' = Observe(seen, parser.state, byte, parser.no_dcs_sos_pm_apc)
    /\ UNCHANGED <<input, buf, fed, processor>>

NextEnd ==
    \/ \E byte \in EndBytes : ~seen.ended /\ Advance(byte)
    \/ EndOnce
    \/ \E byte \in EndBytes : AdvanceBoth(byte)

SpecEnd == Init /\ [][NextEnd]_vars

(***************************************************************************)
(* Synchronized updates: up to MaxCalls calls of Processor::advance and    *)
(* Processor::stop_sync on a new Processor.  buf holds the bytes advanced  *)
(* so far and fed counts the calls.  The chunks are BSU, ESU, the SGR      *)
(* ESC [ 3 1 m, x, BSU and ESU cut in two, ESU BSU ESC [ 4 m in one piece, *)
(* mode 2026 set and reset together with mode 1, and a bytes filling the   *)
(* buffer up to its limit or beyond.                                       *)
(***************************************************************************)
MaxCalls == 3

SGR == <<27, 91, 51, 49, 109>>

SyncChunks ==
    {Runs(BSU_CSI), Runs(ESU_CSI), Runs(SGR), Runs(<<120>>),
     Runs(SubSeq(BSU_CSI, 1, 5)), Runs(SubSeq(BSU_CSI, 6, 8)),
     Runs(SubSeq(ESU_CSI, 6, 8)),
     Runs(ESU_CSI \o BSU_CSI \o <<27, 91, 52, 109>>),
     Runs(ESU_CSI \o BSU_CSI \o ESU_CSI),
     Runs(ESU_CSI \o BSU_CSI \o BSU_CSI),
     Runs(<<27, 91, 63, 49, 59, 50, 48, 50, 54, 104>>),
     Runs(<<27, 91, 63, 50, 48, 50, 54, 59, 49, 108>>),
     <<<<97, SYNC_BUFFER_SIZE - 2>>>>,
     <<<<97, SYNC_BUFFER_SIZE>>>>}

\* processor.advance(&mut handler, chunk)
ProcAdvance(chunk) ==
    /\ fed < MaxCalls
    /\ processor' = ProcessorAdvance(processor, chunk)
    /\ buf' = buf \o chunk
    /\ fed' = fed + 1
    /\ UNCHANGED <<parser, seen, input, ref>>

\* processor.stop_sync(&mut handler)
StopSync ==
    /\ fed < MaxCalls
    /\ processor' = stop_sync(processor)
    /\ fed' = fed + 1
    /\ UNCHANGED <<parser, seen, input, buf, ref>>

NextSync ==
    \/ \E chunk \in SyncChunks : ProcAdvance(chunk)
    \/ StopSync

SpecSync == Init /\ [][NextSync]_vars

\* The events the handler has received from the parser, without those the
\* Processor adds itself.
Dispatched(pr) == SelectSeq(pr.parser.out, LAMBDA e : e.ev # "unset_private_mode")

\* What a Parser fed the byte string alone dispatches.
Plain(bytes) == advance_slice(NewProcessor, bytes).parser

(***************************************************************************)
(* A BSU or ESU arriving in pieces.  After up to MaxPre calls with chunks  *)
(* of SyncChunks a sequence is chosen: ref then holds the processor at     *)
(* that point (start), the sequence (seq) and the processor after the      *)
(* sequence in one call (whole), and input the bytes of the sequence still *)
(* to come.  They are then advanced in two or more calls of any lengths.   *)
(***************************************************************************)
MaxPre == 2

Splitting == "whole" \in DOMAIN ref

PrefixAdvance(chunk) ==
    /\ ~Splitting
    /\ fed < MaxPre
    /\ ProcAdvance(chunk)

StartSplit(seq) ==
    /\ ~Splitting
    /\ ref' = [start |-> processor, seq |-> seq,
               whole |-> ProcessorAdvance(processor, Runs(seq))]
    /\ input' = seq
    /\ UNCHANGED <<parser, seen, buf, fed, processor>>

\* processor.advance(&mut handler, &input[..n])
PieceAdvance(n) ==
    /\ Splitting
    /\ n <= Len(input)
    /\ n < SYNC_ESCAPE_LEN
    /\ processor' = ProcessorAdvance(processor, Runs(SubSeq(input, 1, n)))
    /\ buf' = buf \o Runs(SubSeq(input, 1, n))
    /\ input' = SubSeq(input, n + 1, Len(input))
    /\ UNCHANGED <<parser, seen, ref, fed>>

NextSplit ==
    \/ \E chunk \in SyncChunks : PrefixAdvance(chunk)
    \/ \E seq \in {BSU_CSI, ESU_CSI} : StartSplit(seq)
    \/ \E n \in 1..SYNC_ESCAPE_LEN : PieceAdvance(n)

SpecSplit == Init /\ [][NextSplit]_vars

(***************************************************************************)
(* Single bytes in Ground: each of the 256 bytes fed to a new parser, and  *)
(* after A, after the character C2 80, after ESC A and after a lone C2.    *)
(***************************************************************************)
GroundPrefixes == {<<>>, <<65>>, <<194, 128>>, <<27, 65>>, <<194>>}

GroundInputs == {pre \o <<byte>> : pre \in GroundPrefixes, byte \in 0..255}

InitGround ==
    /\ parser = NewParser
    /\ seen = NewSeen
    /\ input = <<>>
    /\ buf \in GroundInputs
    /\ ref = NewParser
    /\ fed = 0
    /\ processor = NewProcessor

NextGround == FeedRef

SpecGround == InitGround /\ [][NextGround]_vars

\* Whether the sequence seen overflowed a buffer, counting `stores` further
\* parameters to be stored by the dispatch itself.
SeenOverflow(stores) ==
    \/ Len(seen.inter) > MAX_INTERMEDIATES
    \/ Len(seen.fields) + stores > MAX_PARAMS

(***************************************************************************)
(* C2.  In every reachable state the intermediate buffer holds at most 2   *)
(* bytes and the parameter buffer at most 16 values, and every             *)
(* csi_dispatch, hook and esc_dispatch delivers at most 2 intermediates    *)
(* and at most 16 parameters.                                              *)
(***************************************************************************)
C2_BuffersBounded ==
    /\ Len(parser.intermediates) <= MAX_INTERMEDIATES
    /\ Len(parser.params) <= MAX_PARAMS
    /\ \A i \in OutOf({"csi_dispatch", "hook"}) :
         /\ Len(parser.out[i].intermediates) <= MAX_INTERMEDIATES
         /\ Len(parser.out[i].params) <= MAX_PARAMS
    /\ \A i \in OutOf({"esc_dispatch"}) :
         Len(parser.out[i].intermediates) <= MAX_INTERMEDIATES

\* A dispatch of a sequence that overflowed both buffers.
C2_Witness ==
    \E i \in OutOf({"csi_dispatch", "hook"}) :
       /\ Len(seen.inter) > MAX_INTERMEDIATES
       /\ Len(seen.fields) > MAX_PARAMS
       /\ Len(parser.out[i].intermediates) = MAX_INTERMEDIATES
       /\ Len(parser.out[i].params) = MAX_PARAMS

C4_DispatchSinceClear ==
    /\ \A i \in OutOf({"csi_dispatch", "hook"}) :
         /\ parser.out[i].params = SeenParams
         /\ parser.out[i].intermediates = SeenIntermediates
         /\ parser.out[i].ignore = SeenOverflow(1)
    /\ \A i \in OutOf({"esc_dispatch"}) :
         /\ parser.out[i].intermediates = SeenIntermediates
         /\ parser.out[i].ignore = SeenOverflow(0)
    /\ parser.state = Escape =>
         OutOf({"csi_dispatch", "hook", "esc_dispatch"}) = {}

\* A dispatch of the sequence that follows a broken-off one.
C4_Witness ==
    /\ seen.cut
    /\ OutOf({"csi_dispatch", "hook", "esc_dispatch"}) # {}

(***************************************************************************)
(* C6.  A CSI sequence with k semicolons in its parameter section is       *)
(* dispatched with min(k + 1, 16) parameters in input order, an empty      *)
(* field being delivered as 0.                                             *)
(***************************************************************************)
C6_FieldsInOrder ==
    \A i \in OutOf({"csi_dispatch"}) :
       LET ps == parser.out[i].params
       IN  /\ Len(ps) = Min(Len(seen.fields) + 1, MAX_PARAMS)
           /\ \A j \in 1..Len(ps) :
                /\ ps[j] = DecMin(SeenFields[j])
                /\ SeenFields[j] = <<>> => ps[j] = I64(0)

\* ESC [ ; 1 ; m : a leading and a trailing empty field.
C6_Witness ==
    \E i \in OutOf({"csi_dispatch"}) :
       /\ SeenFields = <<<<>>, <<1>>, <<>>>>
       /\ parser.out[i].params = <<I64(0), I64(1), I64(0)>>

C5_ParamSaturates ==
    /\ parser.state \in {CsiParam, DcsParam} /\ Len(parser.params) < MAX_PARAMS
         => parser.param = DecMin(seen.cur)
    /\ \A j \in 1..3 : parser.param[j] >= 0
    /\ I64Leq(parser.param, I64_MAX)
    /\ \A i \in OutOf({"csi_dispatch", "hook"}) :
         /\ ~parser.out[i].ignore
         /\ Len(parser.out[i].params) = Len(SeenFields)
         /\ \A j \in 1..Len(SeenFields) :
              parser.out[i].params[j] = DecMin(SeenFields[j])

\* 9223372036854775808 delivered as 2^63 - 1.
C5_Witness ==
    \E i \in OutOf({"csi_dispatch", "hook"}) :
       /\ SeenFields[1] = [DigitsOfMax EXCEPT ![19] = 8]
       /\ parser.out[i].params[1] = I64_MAX
       /\ ~parser.out[i].ignore

(***************************************************************************)
(* C8.  The index pairs of an OSC string are in-bounds ranges of the raw   *)
(* buffer, the first beginning at 0 and each next one where the previous   *)
(* one ends; no ';' is stored; and osc_dispatch receives the ranges in     *)
(* order, which are the ';'-separated fields of the string.                *)
(***************************************************************************)
C8_OscSlices ==
    /\ \A i \in 1..Len(parser.osc_params) :
         /\ parser.osc_params[i][1] =
              (IF i = 1 THEN 0 ELSE parser.osc_params[i - 1][2])
         /\ parser.osc_params[i][1] <= parser.osc_params[i][2]
         /\ parser.osc_params[i][2] <= Len(parser.osc_raw)
    /\ \A k \in 1..Len(parser.osc_raw) : parser.osc_raw[k] # 59
    /\ \A i \in OutOf({"osc_dispatch"}) :
         /\ parser.out[i].params = FirstN(SplitSemis(seen.osc), MAX_PARAMS)
         /\ \A j \in 1..Len(parser.out[i].params) :
              parser.out[i].params[j] =
                SubSeq(parser.osc_raw, parser.osc_params[j][1] + 1,
                       parser.osc_params[j][2])

\* ESC ] ] ; ; ] BEL and the like: an empty field between non-empty ones.
C8_Witness ==
    \E i \in OutOf({"osc_dispatch"}) :
       /\ Len(parser.out[i].params) = 3
       /\ parser.out[i].params[1] # <<>>
       /\ parser.out[i].params[2] = <<>>
       /\ parser.out[i].params[3] # <<>>

(***************************************************************************)
(* C9.  osc_dispatch receives bell_terminated = true exactly when the      *)
(* byte that ended the OSC string is BEL; BEL in an OSC string always      *)
(* dispatches it, and an OSC ended by ESC is dispatched with false.        *)
(***************************************************************************)
C9_BellTerminated ==
    [][\A byte \in OscBytes :
         (Admitted(byte) /\ parser' = Call(parser, byte)) =>
            /\ \A i \in 1..Len(parser'.out) :
                 parser'.out[i].ev = "osc_dispatch"
                    => parser'.out[i].bell_terminated = (byte = 7)
            /\ parser.state = OscString /\ byte \in {7, 27}
                 => /\ parser'.out # <<>>
                    /\ parser'.out[1].ev = "osc_dispatch"]_vars

\* An OSC string with content ended by ESC and delivered as not bell-terminated.
C9_Witness ==
    /\ parser.state = Escape
    /\ seen.osc # <<>>
    /\ \E i \in OutOf({"osc_dispatch"}) : ~parser.out[i].bell_terminated

(***************************************************************************)
(* C10.  Every osc_dispatch delivers at least 1 and at most 16 slices: an  *)
(* empty OSC delivers one empty slice, and a ';' after the 16th slice      *)
(* creates none.                                                           *)
(***************************************************************************)
C10_OscSliceCount ==
    \A i \in OutOf({"osc_dispatch"}) :
       /\ Len(parser.out[i].params) >= 1
       /\ Len(parser.out[i].params) <= MAX_PARAMS
       /\ Len(parser.out[i].params) = Min(Semis(seen.osc) + 1, MAX_PARAMS)
       /\ seen.osc = <<>> => parser.out[i].params = <<<<>>>>

\* An OSC string with more than 16 semicolons, dispatched with 16 slices.
C10_Witness ==
    \E i \in OutOf({"osc_dispatch"}) :
       /\ Semis(seen.osc) > MAX_PARAMS
       /\ Len(parser.out[i].params) = MAX_PARAMS

(***************************************************************************)
(* C11.  A ';' in an OSC string commits a new parameter only while fewer   *)
(* than 16 are committed; a ';' met with 16 committed is discarded: it     *)
(* commits nothing and the raw buffer is left as it was.                   *)
(***************************************************************************)
C11_SemiAfterMaxDropped ==
    [][(/\ parser.state = OscString
        /\ Admitted(59)
        /\ parser' = Call(parser, 59))
       => IF Len(parser.osc_params) < MAX_PARAMS
          THEN /\ Len(parser'.osc_params) = Len(parser.osc_params) + 1
               /\ parser'.osc_raw = parser.osc_raw
          ELSE /\ parser'.osc_params = parser.osc_params
               /\ parser'.osc_raw = parser.osc_raw]_vars

\* The claim as written: the ';' met with 16 committed is appended to the
\* raw buffer.
C11_AsWritten ==
    [][(/\ parser.state = OscString
        /\ Admitted(59)
        /\ parser' = Call(parser, 59))
       => IF Len(parser.osc_params) < MAX_PARAMS
          THEN /\ Len(parser'.osc_params) = Len(parser.osc_params) + 1
               /\ parser'.osc_raw = parser.osc_raw
          ELSE /\ parser'.osc_params = parser.osc_params
               /\ parser'.osc_raw = Append(parser.osc_raw, 59)]_vars

\* An OSC string still open after its 17th ';'.
C11_Witness ==
    /\ parser.state = OscString
    /\ Semis(seen.osc) > MAX_PARAMS
    /\ Len(parser.osc_params) = MAX_PARAMS
    /\ seen.osc[Len(seen.osc)] = 59

(***************************************************************************)
(* C12.  In the fixed-capacity build osc_raw never holds more than 1024    *)
(* bytes: a byte met with the buffer full is dropped without an event and  *)
(* without changing what is stored, and the terminator still yields        *)
(* exactly one osc_dispatch, with the parameters read before the buffer    *)
(* was full.                                                               *)
(***************************************************************************)
C12_OscRawCapacity ==
    /\ Len(parser.osc_raw) <= MAX_OSC_RAW
    /\ parser.osc_raw = FirstN(NonSemi(seen.osc), MAX_OSC_RAW)
    /\ parser.state = OscString => parser.out = <<>>
    /\ input = <<>> =>
         /\ Len(parser.out) = 1
         /\ parser.out[1].ev = "osc_dispatch"
         /\ parser.out[1].params =
              FirstN(FieldsOf(BeforeFull(seen.osc)), MAX_PARAMS)

\* ESC ] 5 2 ; s a...a BEL with more bytes than fit: 52 and the 1022 bytes
\* that fitted.
C12_Witness ==
    /\ input = <<>>
    /\ Len(NonSemi(seen.osc)) > MAX_OSC_RAW
    /\ Len(parser.out) = 1
    /\ Len(parser.out[1].params) = 2
    /\ parser.out[1].params[1] = <<53, 50>>
    /\ Len(parser.out[1].params[2]) = MAX_OSC_RAW - 2

(***************************************************************************)
(* C13.  Inside an OSC string a byte in 0x80..0xFF, 0x9C included, is      *)
(* stored in the raw buffer as it is: it neither ends the string nor is    *)
(* decoded nor printed, and the slices delivered at the BEL or ESC hold    *)
(* the original bytes.                                                     *)
(***************************************************************************)
C13_OscHighBytes ==
    /\ fed >= 2 /\ fed < Len(buf) =>
         /\ parser.state = OscString
         /\ parser.out = <<>>
         /\ parser.osc_raw = NonSemi(SubSeq(buf, 3, fed))
    /\ fed = Len(buf) =>
         parser.out =
           <<[ev |-> "osc_dispatch",
              params |-> FirstN(FieldsOf(SubSeq(buf, 3, Len(buf) - 1)), MAX_PARAMS),
              bell_terminated |-> (buf[Len(buf)] = 7)]>>

\* ESC ] 0xE6 0x9C 0xAB ESC delivers the three bytes.
C13_Witness ==
    /\ fed = Len(buf)
    /\ buf = <<27, 93, 230, 156, 171, 27>>
    /\ parser.out # <<>>
    /\ parser.out[1].params = <<<<230, 156, 171>>>>

(***************************************************************************)
(* C14.  Over advance calls, hook and unhook alternate starting with a     *)
(* hook, every put lies between a hook and the next unhook, and the hook   *)
(* carries the parameters, intermediates and final byte of the DCS header. *)
(***************************************************************************)
C14_HookPutUnhook ==
    [][\A byte \in DcsBytes :
         (Admitted(byte) /\ parser' = Call(parser, byte)) =>
            /\ DcsOrder(seen.hooked, parser'.out)
            /\ \A i \in 1..Len(parser'.out) :
                 parser'.out[i].ev = "hook" =>
                    parser'.out[i] =
                      [ev |-> "hook", params |-> SeenParams,
                       intermediates |-> SeenIntermediates,
                       ignore |-> SeenOverflow(1), action |-> byte]]_vars

\* A put inside the hook ESC P ; 1 | that follows an earlier unhook.
C14_Witness ==
    /\ seen.unhooked
    /\ seen.hooked
    /\ SeenParams = <<I64(0), I64(1)>>
    /\ OutOf({"put"}) # {}

(***************************************************************************)
(* C15.  With opaque sequences disabled, a byte that would lead to         *)
(* DcsEntry or SosPmApcString yields exactly one esc_dispatch with no      *)
(* intermediates, ignore = false and that byte, and leaves the parser in   *)
(* Ground; a hook, put or unhook comes only from a DCS string begun while  *)
(* they were enabled.                                                      *)
(***************************************************************************)
C15_OpaqueDisabled ==
    [][\A byte \in OpaqueBytes :
         (/\ parser.no_dcs_sos_pm_apc
          /\ Admitted(byte)
          /\ parser' = Call(parser, byte)) =>
            /\ Lookup(parser.state, byte)[1] \in {DcsEntry, SosPmApcString} =>
                 /\ parser'.out =
                      <<[ev |-> "esc_dispatch", intermediates |-> <<>>,
                         ignore |-> FALSE, byte |-> byte]>>
                 /\ parser'.state = Ground
            /\ parser'.state \in {DcsEntry, DcsParam, DcsIntermediate, DcsIgnore,
                                  DcsPassthrough, SosPmApcString}
                 => parser.state \in {DcsEntry, DcsParam, DcsIntermediate, DcsIgnore,
                                      DcsPassthrough, SosPmApcString}
            /\ (\E i \in 1..Len(parser'.out) :
                   parser'.out[i].ev \in {"hook", "put", "unhook"})
                 => parser.state \in {DcsEntry, DcsParam, DcsIntermediate,
                                      DcsPassthrough}]_vars

\* ESC X with opaque sequences disabled.
C15_Witness ==
    /\ parser.no_dcs_sos_pm_apc
    /\ parser.state = Ground
    /\ parser.out = <<[ev |-> "esc_dispatch", intermediates |-> <<>>,
                       ignore |-> FALSE, byte |-> 88]>>

(***************************************************************************)
(* C16.  As written: for every valid UTF-8 string fed from Ground the      *)
(* parser emits exactly one print(c) per decoded code point, in order, and *)
(* no other event.  A string may hold C0 controls, which are executed or   *)
(* open an escape sequence and are not printed.  What holds: for every     *)
(* valid UTF-8 string holding no C0 control (U+0000..U+001F) the events    *)
(* are exactly one print(c) per code point, in order.                      *)
(***************************************************************************)
NoC0(bs) == \A i \in 1..Len(bs) : bs[i] >= 32

C16_ValidStringPrints ==
    (fed = Len(buf) /\ NoC0(buf)) =>
        /\ \A i \in 1..Len(RefDecode(buf)) : RefDecode(buf)[i].ok
        /\ ref.out = Prints(Lossy(buf))
        /\ ref.state = Ground

C16_AsWritten ==
    fed = Len(buf) => ref.out = Prints(Lossy(buf))

\* U+0800 and U+10FFFF, fed whole.
C16_Witness ==
    /\ buf = <<224, 160, 128, 244, 143, 191, 191>>
    /\ fed = Len(buf)
    /\ ref.out = <<[ev |-> "print", c |-> 2048], [ev |-> "print", c |-> 1114111]>>

(***************************************************************************)
(* C17.  As written: for every byte sequence fed from Ground and followed  *)
(* by end(), the characters emitted (prints, with C0 controls taken from   *)
(* execute) equal the reference lossy UTF-8 decoding of the sequence, with *)
(* exactly one U+FFFD per maximal ill-formed subpart at the same           *)
(* positions.  ESC is a character of the lossy decoding, but the parser    *)
(* emits nothing for it and reads what follows as an escape sequence.      *)
(* What holds: the same for every byte sequence holding no ESC (0x1B),     *)
(* where every event is a print or an execute.                             *)
(***************************************************************************)
NoEsc(bs) == \A i \in 1..Len(bs) : bs[i] # 27

InGround(byte) ==
    CASE byte = 27 -> [out |-> <<>>, state |-> Escape]
      [] byte \in 0..31 /\ byte # 27 ->
           [out |-> <<[ev |-> "execute", byte |-> byte]>>, state |-> Ground]
      [] byte \in 32..127 ->
           [out |-> <<[ev |-> "print", c |-> byte]>>, state |-> Ground]
      [] byte > 127 /\ SeqLen(byte) > 1 -> [out |-> <<>>, state |-> Utf8]
      [] OTHER ->
           [out |-> <<[ev |-> "print", c |-> REPLACEMENT_CHARACTER]>>,
            state |-> Ground]

C19_InvalidByteInGround ==
    [][(/\ fed' = fed + 1
        /\ parser.state = Ground
        /\ buf[fed + 1] \in (128..193) \cup (245..255))
       => /\ parser'.out = <<[ev |-> "print", c |-> REPLACEMENT_CHARACTER]>>
          /\ parser'.state = Ground
          /\ parser'.utf8_state = "Ground"]_vars

\* ESC A, then the C1 code 0x9C in Ground.
C19_Witness ==
    /\ buf = <<27, 65, 156>>
    /\ fed = 3
    /\ parser.state = Ground
    /\ parser.out = <<[ev |-> "print", c |-> REPLACEMENT_CHARACTER]>>

C21_EndStartsAfresh ==
    seen.ended =>
        /\ parser.state = ref.state
        /\ parser.utf8_state = ref.utf8_state
        /\ parser.utf8_point = ref.utf8_point
        /\ parser.out = ref.out

\* end() called inside an OSC string, whose bytes stay in osc_raw, then ESC m.
C21_Witness ==
    /\ seen.ended
    /\ parser.osc_raw # <<>>
    /\ parser.out = <<[ev |-> "esc_dispatch", intermediates |-> <<>>,
                       ignore |-> FALSE, byte |-> 109]>>
    /\ parser.out = ref.out

\* Whether the 8 bytes of seq stand in the stream new with their last byte
\* past the end of old and their first byte at or after offset from.
CompletedIn(seq, old, new, from) ==
    \E o \in OffsetsOf(27, new) :
        /\ o >= from
        /\ o + SYNC_ESCAPE_LEN > RunLen(old)
        /\ o + SYNC_ESCAPE_LEN <= RunLen(new)
        /\ \A k \in 1..SYNC_ESCAPE_LEN : ByteAt(new, o + k - 1) = seq[k]

\* Where in the stream the sync buffer begins.
BufferStart == RunLen(buf) - RunLen(processor.buffer)

\* Whether the chunk a step advances reaches the limit of the buffer.
Overflows == RunLen(processor.buffer) + (RunLen(buf') - RunLen(buf)) >= SYNC_BUFFER_SIZE - 1

(***************************************************************************)
(* C22.  While a synchronized update is pending, the bytes passed to       *)
(* Processor::advance produce no handler event: a call that neither        *)
(* completes an ESU nor overflows the buffer leaves the handler's events   *)
(* and the parser as they are and appends its bytes to the buffer.  At any *)
(* time the buffer is the end of the stream advanced so far and the        *)
(* handler has received what a parser alone dispatches for the bytes       *)
(* before it, in their order; with no update pending the buffer is empty,  *)
(* so all of the stream has been dispatched.                               *)
(***************************************************************************)
C22_BufferedUntilEnd ==
    /\ [](/\ RunLen(processor.buffer) <= RunLen(buf)
          /\ DropBytes(buf, BufferStart) = processor.buffer
          /\ Dispatched(processor) = Plain(TakeBytes(buf, BufferStart)).out
          /\ processor.timeout = 0 => processor.buffer = <<>>)
    /\ [][(/\ processor.timeout # 0
           /\ buf' # buf
           /\ ~Overflows
           /\ ~CompletedIn(ESU_CSI, buf, buf', BufferStart))
          => /\ processor'.parser = processor.parser
             /\ processor'.timeout # 0
             /\ processor'.buffer = processor.buffer \o DropBytes(buf', RunLen(buf))]_vars

\* BSU, ESC [ 3 1 m, ESU in three calls: the SGR is dispatched by the third.
C22_Witness ==
    /\ buf = Runs(BSU_CSI \o SGR \o ESU_CSI)
    /\ fed = 3
    /\ processor.timeout = 0
    /\ Len(processor.parser.out) = 4
    /\ processor.parser.out[2] =
         [ev |-> "csi_dispatch", params |-> <<I64(31)>>, intermediates |-> <<>>,
          ignore |-> FALSE, action |-> 109]

(***************************************************************************)
(* C23.  The sync buffer never reaches SYNC_BUFFER_SIZE (2 MiB).  When a   *)
(* chunk would bring it there during an update, or when stop_sync is       *)
(* called, the handler receives the events of all buffered bytes, then     *)
(* unset_private_mode(SyncUpdate); nothing of the old buffer stays         *)
(* buffered, and the overflowing chunk is dispatched directly after it.    *)
(* The timeout is left cleared, unless the chunk itself holds a BSU, whose *)
(* dispatch starts a fresh update that buffers only what follows it.       *)
(***************************************************************************)
C23_OverflowAndStopFlush ==
    /\ [](RunLen(processor.buffer) < SYNC_BUFFER_SIZE)
    /\ [][(/\ fed' = fed + 1
           /\ \/ buf' = buf
              \/ /\ processor.timeout # 0
                 /\ RunLen(processor.buffer) + (RunLen(buf') - RunLen(buf))
                       >= SYNC_BUFFER_SIZE)
          => LET h == processor.parser.out
                 hn == processor'.parser.out
                 all == Plain(buf).out
                 k == Len(all) - Len(Dispatched(processor))
             IN  /\ Len(hn) >= Len(h) + k + 1
                 /\ SubSeq(hn, 1, Len(h)) = h
                 /\ SubSeq(hn, Len(h) + 1, Len(h) + k)
                       = SubSeq(all, Len(all) - k + 1, Len(all))
                 /\ hn[Len(h) + k + 1] = [ev |-> "unset_private_mode",
                                          mode |-> SyncUpdate]
                 /\ BufferStart' >= RunLen(buf)
                 /\ Dispatched(processor') = Plain(TakeBytes(buf', BufferStart')).out
                 /\ processor'.timeout = 0 => processor'.buffer = <<>>
                 /\ processor'.timeout # 0 =>
                       \E i \in (Len(h) + k + 2)..Len(hn) : SetsTimeout(hn[i]) > 0
                 /\ buf' = buf =>
                       processor'.timeout = 0 /\ Len(hn) = Len(h) + k + 1]_vars

\* BSU, ESC [ 3 1 m, then SYNC_BUFFER_SIZE bytes a (test sync_bursts_buffer).
C23_Witness ==
    /\ buf = Runs(BSU_CSI \o SGR) \o <<<<97, SYNC_BUFFER_SIZE>>>>
    /\ processor.timeout = 0
    /\ processor.buffer = <<>>
    /\ Len(processor.parser.out) = 5
    /\ processor.parser.out[3] = [ev |-> "unset_private_mode", mode |-> SyncUpdate]
    /\ processor.parser.out[4] = [ev |-> "print", c |-> 97]

\* The offsets in the stream `new`, from `from` on, of the occurrences of seq
\* whose last byte is not yet in `old`.
SeqsAt(seq, old, new, from) ==
    {o \in OffsetsOf(27, new) :
        /\ o >= from
        /\ o + SYNC_ESCAPE_LEN > RunLen(old)
        /\ o + SYNC_ESCAPE_LEN <= RunLen(new)
        /\ \A k \in 1..SYNC_ESCAPE_LEN : ByteAt(new, o + k - 1) = seq[k]}

\* The first BSU behind the last ESU among the occurrences the bytes added
\* to `old` complete, as a set: empty when there is no ESU or no BSU behind.
FirstBsuAfterEsu(old, new, from) ==
    LET esus == SeqsAt(ESU_CSI, old, new, from)
        bsus == SeqsAt(BSU_CSI, old, new, from)
        after == {b \in bsus : \A e \in esus : e < b}
    IN  IF esus = {} THEN {}
        ELSE {b \in after : \A c \in after : b <= c}

(***************************************************************************)
(* C24.  During an update, when the bytes of a call (below the limit of    *)
(* the buffer) complete an ESU and a BSU follows the last ESU, the bytes   *)
(* before the first BSU after that ESU are flushed, ESU included: the      *)
(* handler has then received what a parser alone dispatches for them.  The *)
(* BSU and all after it stay in the buffer and the update stays pending.   *)
(* The parser is given buffered bytes only by a call that completes an     *)
(* ESU, overflows the buffer or is stop_sync.                              *)
(***************************************************************************)
C24_EsuThenBsu ==
    /\ [][(/\ processor.timeout # 0
           /\ buf' # buf
           /\ ~Overflows)
          => \A b0 \in FirstBsuAfterEsu(buf, buf', BufferStart) :
                /\ processor'.buffer = DropBytes(buf', b0)
                /\ processor'.timeout # 0
                /\ Dispatched(processor') = Plain(TakeBytes(buf', b0)).out
                /\ Len(processor'.parser.out) > Len(processor.parser.out)]_vars
    /\ [][(processor.timeout # 0 /\ processor'.parser # processor.parser)
          => \/ buf' = buf
             \/ Overflows
             \/ SeqsAt(ESU_CSI, buf, buf', BufferStart) # {}]_vars

\* The claim as written: any ESU followed by a BSU in the new bytes.
C24_AsWritten ==
    [][(/\ processor.timeout # 0
        /\ buf' # buf
        /\ ~Overflows)
       => LET esus == SeqsAt(ESU_CSI, buf, buf', BufferStart)
              bsus == SeqsAt(BSU_CSI, buf, buf', BufferStart)
              pairs == {b \in bsus : \E e \in esus : e < b}
          IN  pairs # {}
              => \E b \in pairs :
                    /\ processor'.buffer = DropBytes(buf', b)
                    /\ processor'.timeout # 0
                    /\ Dispatched(processor') = Plain(TakeBytes(buf', b)).out]_vars

\* BSU, ESC [ 3 1 m, then ESU BSU ESC [ 4 m in one call (test
\* sync_bsu_with_esu): the SGR and the ESU are dispatched, the rest is held.
C24_Witness ==
    /\ buf = Runs(BSU_CSI \o SGR \o ESU_CSI \o BSU_CSI \o <<27, 91, 52, 109>>)
    /\ fed = 3
    /\ processor.timeout # 0
    /\ processor.buffer = Runs(BSU_CSI \o <<27, 91, 52, 109>>)
    /\ Len(processor.parser.out) = 3
    /\ processor.parser.out[3].ev = "csi_dispatch"
    /\ processor.parser.out[3].action = 108

(***************************************************************************)
(* C25.  During an update, a call below the limit of the buffer whose      *)
(* bytes complete a BSU and no ESU only sets the timeout again: the parser *)
(* and the handler's events stay as they are, and the buffer is the old    *)
(* buffer followed by the new bytes.                                       *)
(***************************************************************************)
C25_NestedBsuRefreshes ==
    [][(/\ processor.timeout # 0
        /\ buf' # buf
        /\ ~Overflows
        /\ SeqsAt(BSU_CSI, buf, buf', BufferStart) # {}
        /\ SeqsAt(ESU_CSI, buf, buf', BufferStart) = {})
       => /\ processor'.parser = processor.parser
          /\ processor'.timeout > processor.timeout
          /\ processor'.buffer = processor.buffer \o DropBytes(buf', RunLen(buf))]_vars

\* The claim as written: whatever the buffer holds.
C25_AsWritten ==
    [][(/\ processor.timeout # 0
        /\ buf' # buf
        /\ SeqsAt(BSU_CSI, buf, buf', BufferStart) # {}
        /\ SeqsAt(ESU_CSI, buf, buf', BufferStart) = {})
       => /\ processor'.parser.out = processor.parser.out
          /\ processor'.timeout # 0
          /\ TakeBytes(processor'.buffer, RunLen(processor.buffer)) = processor.buffer]_vars

\* BSU, ESC [ 3 1 m, BSU (test partial_sync_updates): one event, the first
\* BSU's dispatch; the second BSU is buffered behind the SGR.
C25_Witness ==
    /\ buf = Runs(BSU_CSI \o SGR \o BSU_CSI)
    /\ fed = 3
    /\ processor.timeout = 2
    /\ processor.buffer = Runs(SGR \o BSU_CSI)
    /\ Len(processor.parser.out) = 1

(***************************************************************************)
(* C26.  A BSU or ESU that reaches Processor::advance in two or more calls *)
(* leaves the processor exactly as the same 8 bytes in one call do,        *)
(* wherever the calls end.  During an update, with room for the 8 bytes in *)
(* the buffer, the calls before the one that brings the last byte only     *)
(* append to the buffer; the complete BSU has set the timeout once more    *)
(* and left the parser alone, the complete ESU has ended the update: all   *)
(* of the stream is dispatched, the buffer is empty, the timeout cleared   *)
(* and unset_private_mode reported once.                                   *)
(***************************************************************************)
C26_SplitSequences ==
    Splitting =>
       LET start == ref.start
           room == /\ start.timeout # 0
                   /\ RunLen(start.buffer) + SYNC_ESCAPE_LEN < SYNC_BUFFER_SIZE - 1
           done == SYNC_ESCAPE_LEN - Len(input)
       IN  /\ input = <<>> => processor = ref.whole
           /\ (room /\ input # <<>>) =>
                 processor = [start EXCEPT
                                !.buffer = @ \o Runs(SubSeq(ref.seq, 1, done))]
           /\ (room /\ input = <<>> /\ ref.seq = BSU_CSI) =>
                 /\ processor.timeout = start.timeout + 1
                 /\ processor.parser = start.parser
                 /\ processor.buffer = start.buffer \o Runs(BSU_CSI)
           /\ (room /\ input = <<>> /\ ref.seq = ESU_CSI) =>
                 /\ processor.timeout = 0
                 /\ processor.buffer = <<>>
                 /\ Dispatched(processor) = Plain(buf).out
                 /\ Len(processor.parser.out) - Len(Dispatched(processor))
                       = Len(start.parser.out) - Len(Dispatched(start)) + 1

\* BSU and ESC [ 3 1 m in two calls, then the ESU in pieces: with its last
\* byte the SGR and the ESU are dispatched and the update is over.
C26_Witness ==
    /\ Splitting
    /\ input = <<>>
    /\ ref.seq = ESU_CSI
    /\ ref.start.buffer = Runs(SGR)
    /\ buf = Runs(BSU_CSI \o SGR \o ESU_CSI)
    /\ processor.timeout = 0
    /\ Len(processor.parser.out) = 4
    /\ processor.parser.out[3].action = 108
    /\ processor.parser.out[4].ev = "unset_private_mode"

(***************************************************************************)
(* C27.  An update begins only in a call that completes the 8 bytes        *)
(* ESC [ ? 2 0 2 6 h, and ends only in a call that completes the 8 bytes   *)
(* ESC [ ? 2 0 2 6 l, overflows the buffer or is stop_sync.                *)
(***************************************************************************)
C27_AsWritten ==
    /\ [][(processor.timeout = 0 /\ processor'.timeout # 0)
          => SeqsAt(BSU_CSI, buf, buf', 0) # {}]_vars
    /\ [][(processor.timeout # 0 /\ processor'.timeout = 0)
          => \/ buf' = buf
             \/ Overflows
             \/ SeqsAt(ESU_CSI, buf, buf', BufferStart) # {}]_vars

\* A dispatch of CSI ? ... h with SyncUpdate among its parameters: the event
\* at which Performer::csi_dispatch sets terminated.
Terminates(e) ==
    /\ e.ev = "csi_dispatch"
    /\ e.action = 104
    /\ e.intermediates = <<63>>
    /\ ~e.ignore
    /\ \E i \in 1..Len(e.params) : e.params[i] = I64(SyncUpdate)

\* advance_until_terminated called again with what it left, until the bytes
\* are used up.
RECURSIVE Reenter(_, _)
Reenter(pr, bytes) ==
    IF bytes = <<>> THEN pr
    ELSE With(advance_until_terminated(pr, bytes), LAMBDA r :
           With(DropBytes(bytes, r.n), LAMBDA rest : Reenter(r.pr, rest)))

(***************************************************************************)
(* C28.  For the chunk of a call made with no update pending,              *)
(* advance_until_terminated takes n bytes, 1 <= n <= the chunk's length.   *)
(* The parser is then as after exactly the first n bytes; none of the      *)
(* events but the last is a dispatch that sets terminated; the run stops   *)
(* before the end of the chunk only when byte n caused such a dispatch,    *)
(* and always when a byte did.  Calling again with the rest until the      *)
(* chunk is used up gives the parser and the events of the whole chunk     *)
(* parsed without interruption.                                            *)
(***************************************************************************)
C28_AdvanceUntilTerminated ==
    [][(processor.timeout = 0 /\ buf' # buf)
       => \A chunk \in {DropBytes(buf', RunLen(buf))} :
          \A r \in {advance_until_terminated(processor, chunk)} :
             LET old == Len(processor.parser.out)
                 new == SubSeq(r.pr.parser.out, old + 1, Len(r.pr.parser.out))
                 before == advance_slice(processor, TakeBytes(chunk, r.n - 1)).parser.out
                 stopped == new # <<>> /\ Terminates(new[Len(new)])
             IN  /\ 1 <= r.n
                 /\ r.n <= RunLen(chunk)
                 /\ r.pr.parser = advance_slice(processor, TakeBytes(chunk, r.n)).parser
                 /\ \A i \in 1..(Len(new) - 1) : ~Terminates(new[i])
                 /\ r.n < RunLen(chunk) => stopped
                 /\ stopped => Len(before) < Len(r.pr.parser.out)
                 /\ stopped => r.pr.timeout # 0
                 /\ Reenter(processor, chunk).parser = advance_slice(processor, chunk).parser]_vars

\* ESU BSU ESC [ 4 m as the first chunk: the run stops after the 16th byte,
\* the dispatch of the BSU, and the SGR is left to the next run.
C28_Witness ==
    /\ buf = Runs(ESU_CSI \o BSU_CSI \o <<27, 91, 52, 109>>)
    /\ fed = 1
    /\ advance_until_terminated(NewProcessor, buf).n = 16
    /\ processor.buffer = Runs(<<27, 91, 52, 109>>)
    /\ Len(processor.parser.out) = 2
    /\ Terminates(processor.parser.out[2])

\* The callback an action makes, "" for an action that makes none (with
\* opaque sequences enabled, and leaving BeginUtf8 aside).
EventKind(action) ==
    CASE action = ActPrint -> "print"
      [] action = ActExecute -> "execute"
      [] action = ActHook -> "hook"
      [] action = ActPut -> "put"
      [] action = ActUnhook -> "unhook"
      [] action = ActOscEnd -> "osc_dispatch"
      [] action = ActCsiDispatch -> "csi_dispatch"
      [] action = ActEscDispatch -> "esc_dispatch"
      [] OTHER -> ""

\* The callbacks a sequence of actions makes, in their order.
Kinds(actions) ==
    SelectSeq([i \in 1..Len(actions) |-> EventKind(actions[i])], LAMBDA k : k # "")

(***************************************************************************)
(* C29.  The callbacks of one advance call are, in this order, that of the *)
(* exit action of the state left, that of the transition action and that   *)
(* of the entry action of the state entered, an action that makes none     *)
(* being left out; a byte that changes no state runs its action alone.     *)
(* CAN in OscString gives osc_dispatch, then execute(0x18); the final byte *)
(* of a DCS header gives one hook, which carries all parameters and        *)
(* intermediates read before it.                                           *)
(***************************************************************************)
C29_ExitActionEntry ==
    [][\A byte \in OrderBytes :
         (input # <<>> /\ byte = Head(input) /\ parser' = Call(parser, byte)) =>
            LET sa == Lookup(parser.state, byte)
                evs == parser'.out
            IN  /\ sa[1] # Anywhere =>
                     /\ parser'.state = sa[1]
                     /\ [i \in 1..Len(evs) |-> evs[i].ev]
                           = Kinds(<<exit_action(parser.state), sa[2],
                                     entry_action(sa[1])>>)
                /\ sa[1] = Anywhere =>
                     /\ parser'.state = parser.state
                     /\ [i \in 1..Len(evs) |-> evs[i].ev] = Kinds(<<sa[2]>>)
                /\ (parser.state = OscString /\ byte = 24) =>
                     /\ Len(evs) = 2
                     /\ evs[1].ev = "osc_dispatch"
                     /\ evs[2] = [ev |-> "execute", byte |-> 24]
                /\ (parser.state \in {DcsEntry, DcsParam, DcsIntermediate}
                      /\ sa[1] = DcsPassthrough) =>
                     evs = <<[ev |-> "hook", params |-> SeenParams,
                              intermediates |-> SeenIntermediates,
                              ignore |-> SeenOverflow(1), action |-> byte]>>]_vars

\* ESC ] x CAN: the OSC string is dispatched, then the CAN executed.
C29_Witness ==
    /\ seen.osc = <<120>>
    /\ parser.state = Ground
    /\ Len(parser.out) = 2
    /\ parser.out[1].ev = "osc_dispatch"
    /\ parser.out[1].params = <<<<120>>>>
    /\ parser.out[2] = [ev |-> "execute", byte |-> 24]

\* The callbacks of the events evs, in their order.
EventsOf(evs) == [i \in 1..Len(evs) |-> evs[i].ev]

StateValues == 0..15

\* The discriminants of Action: 0..11 fit the table, 16..22 do not.
ActionValues == (0..11) \cup (16..22)

InitPack ==
    /\ parser = NewParser
    /\ seen = NewSeen
    /\ input \in {<<s, a>> : s \in StateValues, a \in ActionValues}
    /\ buf = <<>>
    /\ ref = <<>>
    /\ fed = 0
    /\ processor = NewProcessor

PackStep ==
    /\ fed = 0
    /\ buf' = <<pack(input[1], input[2])>>
    /\ fed' = 1
    /\ UNCHANGED <<parser, seen, input, ref, processor>>

UnpackStep ==
    /\ fed = 1
    /\ ref' = unpack(buf[1])
    /\ fed' = 2
    /\ UNCHANGED <<parser, seen, input, buf, processor>>

NextPack == PackStep \/ UnpackStep

SpecPack == InitPack /\ [][NextPack]_vars

\* C31: for every state 0..15 and every action below 16, the packed byte
\* holds the state in its low 4 bits and the action in its high 4 bits, and
\* unpacking it gives the state and the action back.
C31_PackUnpackInverse ==
    /\ fed >= 1 /\ input[2] < 16 =>
          /\ buf[1] \in 0..255
          /\ buf[1] % 16 = input[1]
          /\ buf[1] \div 16 = input[2]
    /\ fed = 2 /\ input[2] < 16 => ref = input

\* The tests of definitions.rs: Escape and BeginUtf8 pack to 0xAA and unpack
\* again.
C31_Witness ==
    /\ fed = 2
    /\ input = <<Escape, ActBeginUtf8>>
    /\ buf = <<170>>
    /\ ref = <<Escape, ActBeginUtf8>>

(***************************************************************************)
(* SpecUtf8: the UTF-8 decoder on its own, given any byte in any state.    *)
(* ref holds the decoder (state, point) and told, what the latest step     *)
(* told the receiver; buf holds the bytes given since the decoder was last *)
(* in Ground, the latest one included.  The bytes are the ends of every    *)
(* range Parser::next tells apart.                                         *)
(***************************************************************************)
Utf8Bytes ==
    {0, 65, 127, 128, 143, 144, 159, 160, 191, 192, 193, 194, 223, 224, 225,
     236, 237, 238, 239, 240, 241, 243, 244, 245, 255}

NewDecoder == [state |-> "Ground", point |-> 0, told |-> <<>>]

InitUtf8 ==
    /\ parser = NewParser
    /\ seen = NewSeen
    /\ input = <<>>
    /\ buf = <<>>
    /\ ref = NewDecoder
    /\ fed = 0
    /\ processor = NewProcessor

Utf8Step(byte) ==
    /\ \E r \in {Utf8Advance(ref.state, ref.point, byte)} :
          ref' = [state |-> r.state, point |-> r.point, told |-> r.told]
    /\ buf' = IF ref.state = "Ground" THEN <<byte>> ELSE Append(buf, byte)
    /\ UNCHANGED <<parser, seen, input, fed, processor>>

Utf8EndStep ==
    /\ \E r \in {Utf8End(ref.state, ref.point)} :
          ref' = [state |-> r.state, point |-> r.point, told |-> r.told]
    /\ UNCHANGED <<parser, seen, input, buf, fed, processor>>

NextUtf8 ==
    \/ \E byte \in Utf8Bytes : Utf8Step(byte)
    \/ Utf8EndStep

SpecUtf8 == InitUtf8 /\ [][NextUtf8]_vars

\* C32: after every step of the UTF-8 decoder, a byte or the end of the
\* stream, the accumulator is 0 whenever the decoder is in Ground.
C32_GroundPointZero == ref.state = "Ground" => ref.point = 0

\* EF BF BF is complete: U+FFFF is emitted and the accumulator is clear.
C32_Witness ==
    /\ buf = <<239, 191, 191>>
    /\ ref.told = <<"codepoint", 65535>>
    /\ ref.state = "Ground"
    /\ ref.point = 0

\* C35: every code point the decoder emits is a Unicode scalar value in
\* shortest form: at most 0x10FFFF, outside 0xD800..0xDFFF, and at least
\* 0x80, 0x800, 0x10000 when it took 2, 3, 4 bytes.
C35_ScalarShortestForm ==
    ref.told # <<>> /\ ref.told[1] = "codepoint" =>
        /\ Len(buf) \in 1..4
        /\ ref.told[2] \in 0..1114111
        /\ ref.told[2] \notin 55296..57343
        /\ Len(buf) = 1 => ref.told[2] = buf[1] /\ buf[1] < 128
        /\ Len(buf) = 2 => ref.told[2] >= 128
        /\ Len(buf) = 3 => ref.told[2] >= 2048
        /\ Len(buf) = 4 => ref.told[2] >= 65536

\* The least and the greatest code point of each length are emitted: C2 80,
\* E0 A0 80, F0 90 80 80 and F4 8F BF BF, besides ED 9F BF below the
\* surrogates.
C35_Witness ==
    /\ ref.told # <<>>
    /\ ref.told[1] = "codepoint"
    /\ \/ buf = <<194, 128>> /\ ref.told[2] = 128
       \/ buf = <<224, 160, 128>> /\ ref.told[2] = 2048
       \/ buf = <<237, 159, 191>> /\ ref.told[2] = 55295
       \/ buf = <<240, 144, 128, 128>> /\ ref.told[2] = 65536
       \/ buf = <<244, 143, 191, 191>> /\ ref.told[2] = 1114111

\* The bytes that begin a sequence of more than one byte.
LeadBytes == 194..244

\* C33: between calls the VT state is Utf8 if and only if the decoder is
\* outside Ground.  A call leaves the parser in Utf8 exactly when the decoder
\* accepted a continuation that does not complete the character, or a lead
\* byte was accepted from Ground (also the Ground entered by the invalid
\* sequence the same byte has just ended); whenever the decoder completes a
\* code point or reports an invalid sequence the VT state goes to Ground and
\* the character is printed.
C33_Utf8IffDecoding ==
    /\ [](parser.state = Utf8 <=> parser.utf8_state # "Ground")
    /\ [][fed' = fed + 1 =>
            \A byte \in {buf[fed + 1]} :
            \A r \in {Utf8Advance(parser.utf8_state, parser.utf8_point, byte)} :
               /\ parser'.state = Utf8 <=>
                     \/ parser.state = Utf8 /\ r.told = <<>>
                     \/ /\ \/ parser.state = Ground
                           \/ parser.state = Utf8 /\ ~r.consumed
                        /\ byte \in LeadBytes
               /\ parser.state = Utf8 /\ r.told # <<>> =>
                     /\ parser'.out # <<>>
                     /\ parser'.out[1] =
                           [ev |-> "print",
                            c |-> IF r.told[1] = "codepoint" THEN r.told[2]
                                  ELSE REPLACEMENT_CHARACTER]
                     /\ r.consumed => parser'.state = Ground
               /\ parser.state = Utf8 /\ r.told = <<>> => parser'.out = <<>>
        ]_vars

\* E1 80: the lead byte was accepted and the character is not complete.
C33_Witness ==
    /\ fed = 2
    /\ buf[1] = 225 /\ buf[2] = 128
    /\ parser.state = Utf8
    /\ parser.utf8_state = "Tail1"

MaxFrame == 4

FrameBytes == {27, 91, 93, 80, 49, 36, 120, 194}

InitFrame ==
    /\ parser = NewParser
    /\ seen = NewSeen
    /\ input \in SeqsUpTo(FrameBytes, MaxFrame)
    /\ buf = <<>>
    /\ ref = NewParser
    /\ fed = 0
    /\ processor = NewProcessor

NextFrame == Feed

SpecFrame == InitFrame /\ [][NextFrame]_vars

IsPrefix(a, b) == Len(a) <= Len(b) /\ SubSeq(b, 1, Len(a)) = a

\* C36: a byte whose table entry has destination Anywhere leaves the VT
\* state as it is and has the effect of its transition action alone: at most
\* one event, never hook, unhook or osc_dispatch, and nothing collected so
\* far is cleared (no Clear, no OscStart).  A byte with no entry in the
\* Anywhere row nor in the state's row gives no event and changes nothing.
C36_ActionOnlyEntries ==
    [][input # <<>> /\ parser.state # Utf8 =>
         \A byte \in {Head(input)} :
         \A sa \in {Lookup(parser.state, byte)} :
            /\ sa[1] = Anywhere =>
                  /\ parser'.state = parser.state
                  /\ parser' = perform_action([parser EXCEPT !.out = <<>>],
                                              sa[2], byte)
                  /\ Len(parser'.out) <= 1
                  /\ \A i \in 1..Len(parser'.out) :
                        parser'.out[i].ev \notin {"hook", "unhook", "osc_dispatch"}
                  /\ IsPrefix(parser.params, parser'.params)
                  /\ IsPrefix(parser.intermediates, parser'.intermediates)
                  /\ IsPrefix(parser.osc_raw, parser'.osc_raw)
                  /\ IsPrefix(parser.osc_params, parser'.osc_params)
                  /\ parser.ignoring => parser'.ignoring
                  /\ sa[2] = ActPut =>
                        parser'.out = <<[ev |-> "put", byte |-> byte]>>
                  /\ sa[2] \in {ActOscPut, ActParam, ActCollect} =>
                        parser'.out = <<>>
            /\ /\ STATE_CHANGES(Anywhere, byte) = 0
               /\ STATE_CHANGES(parser.state, byte) = 0
               => parser' = [parser EXCEPT !.out = <<>>]
    ]_vars

\* ESC P x x: the second x is passed on by put alone, with the hook of the
\* first x still open.
C36_Witness ==
    /\ input = <<>>
    /\ parser.state = DcsPassthrough
    /\ parser.out = <<[ev |-> "put", byte |-> 120]>>

(***************************************************************************)
(* SpecExit: every stream of up to MaxExit bytes over ESC ] BEL CAN SUB \  *)
(* ; x, fed one byte per call to the parser and to ref, which keeps every  *)
(* event since the start, and closed by one call of end.                   *)
(***************************************************************************)
MaxExit == 4

ExitBytes == {27, 93, 7, 24, 26, 92, 59, 120}

InitExit ==
    /\ parser = NewParser
    /\ seen = NewSeen
    /\ input = <<>>
    /\ buf \in SeqsUpTo(ExitBytes, MaxExit)
    /\ ref = NewParser
    /\ fed = 0
    /\ processor = NewProcessor

NextExit == FeedRef \/ EndBuf

SpecExit == InitExit /\ [][NextExit]_vars

\* The VT state after the first n bytes, read off the table alone.
RECURSIVE StateAfter(_, _)
StateAfter(bytes, n) ==
    IF n = 0 THEN Ground
    ELSE LET st == StateAfter(bytes, n - 1)
             sa == Lookup(st, bytes[n])
         IN  IF sa[1] = Anywhere THEN st ELSE sa[1]

\* The entries into OscString among the first n bytes.
OscEntries(bytes, n) ==
    Cardinality({i \in 1..n : /\ StateAfter(bytes, i) = OscString
                              /\ StateAfter(bytes, i - 1) # OscString})

OscDispatches(evs) ==
    Cardinality({i \in 1..Len(evs) : evs[i].ev = "osc_dispatch"})

\* C37: the entries into OscString are as many as the osc_dispatch events,
\* plus the one string still open.  A call emits osc_dispatch exactly when
\* its byte leaves OscString, which BEL, ESC, CAN and SUB do and no other
\* byte; it is the first event of the call and the only osc_dispatch, and
\* bell_terminated tells BEL from the others.  After the ESC that ended an
\* OSC, the backslash gives esc_dispatch([], false, 0x5C).  (end emits
\* nothing for a string left open.)
C37_OneDispatchPerOsc ==
    /\ [](~seen.ended =>
            OscEntries(buf, fed) =
               OscDispatches(ref.out) + (IF parser.state = OscString THEN 1 ELSE 0))
    /\ [](seen.ended /\ OscEntries(buf, fed) > OscDispatches(ref.out)
            => parser.out = <<>>)
    /\ [][fed' = fed + 1 =>
            \A byte \in {buf[fed + 1]} :
               /\ OscDispatches(parser'.out) =
                     IF parser.state = OscString /\ byte \in {7, 24, 26, 27}
                     THEN 1 ELSE 0
               /\ parser.state = OscString =>
                     (parser'.state # OscString <=> byte \in {7, 24, 26, 27})
               /\ OscDispatches(parser'.out) = 1 =>
                     /\ parser'.out[1].ev = "osc_dispatch"
                     /\ parser'.out[1].bell_terminated = (byte = 7)
               /\ parser.state = OscString /\ byte = 27 =>
                     /\ Len(parser'.out) = 1
                     /\ parser'.state = Escape
               /\ fed >= 1 /\ buf[fed] = 27 /\ byte = 92 =>
                     /\ parser'.out = <<[ev |-> "esc_dispatch",
                                         intermediates |-> <<>>,
                                         ignore |-> FALSE, byte |-> 92]>>
                     /\ parser'.state = Ground
       ]_vars

\* ESC ] ESC \: the OSC was dispatched on the ESC, not bell-terminated, and
\* the backslash has just been dispatched as an escape sequence.
C37_Witness ==
    /\ buf = <<27, 93, 27, 92>>
    /\ fed = 4
    /\ ~seen.ended
    /\ OscDispatches(ref.out) = 1
    /\ ref.out[1].ev = "osc_dispatch"
    /\ ~ref.out[1].bell_terminated
    /\ parser.out = <<[ev |-> "esc_dispatch", intermediates |-> <<>>,
                       ignore |-> FALSE, byte |-> 92]>>

\* C38: after any calls of advance and stop_sync the stream received so
\* far is the bytes given to the parser followed by the sync buffer: the
\* buffer is the end of the stream, the parser is the one fed exactly the
\* bytes before it, in their order, and the handler has received their
\* events; bytes once given to the parser are never given again nor taken
\* back, and every byte of a call is either parsed or buffered by its end.
C38_NoByteLost ==
    /\ [](\A start \in {RunLen(buf) - RunLen(processor.buffer)} :
            /\ start >= 0
            /\ processor.buffer = DropBytes(buf, start)
            /\ \A plain \in {Plain(TakeBytes(buf, start))} :
                  /\ [processor.parser EXCEPT !.out = <<>>]
                        = [plain EXCEPT !.out = <<>>]
                  /\ Dispatched(processor) = plain.out)
    /\ [][BufferStart' >= BufferStart]_vars

\* BSU, then ESU BSU ESC [ 4 m in one call: the first BSU and the ESU have
\* been parsed, the second BSU and what follows it are kept.
C38_Witness ==
    /\ fed = 2
    /\ buf = Runs(BSU_CSI \o ESU_CSI \o BSU_CSI \o <<27, 91, 52, 109>>)
    /\ processor.buffer = Runs(BSU_CSI \o <<27, 91, 52, 109>>)
    /\ processor.timeout # 0
    /\ Len(Dispatched(processor)) = 2

\* Processor::sync_bytes_count
sync_bytes_count(pr) == RunLen(pr.buffer)

\* SyncHandler::pending_timeout
pending_timeout(pr) == pr.timeout # 0

\* C39: between the operations of the Processor, with no synchronized
\* update pending the sync buffer is empty (sync_bytes_count is 0).
C39_IdleBufferEmpty ==
    ~pending_timeout(processor) => sync_bytes_count(processor) = 0

\* BSU, ESC [ 3 1 m, then stop_sync: the buffered SGR has been dispatched,
\* the timeout is cleared and the buffer is empty.
C39_Witness ==
    /\ fed = 3
    /\ buf = Runs(BSU_CSI \o SGR)
    /\ Len(Dispatched(processor)) = 2
    /\ processor.parser.out[Len(processor.parser.out)] =
          [ev |-> "unset_private_mode", mode |-> SyncUpdate]
    /\ ~pending_timeout(processor)
    /\ sync_bytes_count(processor) = 0

\* The loop of Processor::advance, turn by turn: what each turn adds to
\* `processed`.  A turn that adds nothing would be repeated for ever and
\* ends the list.
RECURSIVE LoopCounts(_, _)
LoopCounts(pr, bytes) ==
    IF bytes = <<>> THEN <<>>
    ELSE With(IF pr.timeout # 0
              THEN advance_sync(pr, bytes)
              ELSE advance_until_terminated(pr, bytes),
              LAMBDA r :
                IF r.n = 0 THEN <<0>>
                ELSE With(DropBytes(bytes, r.n), LAMBDA rest :
                       <<r.n>> \o LoopCounts(r.pr, rest)))

RECURSIVE SumSeq(_)
SumSeq(ns) == IF ns = <<>> THEN 0 ELSE Head(ns) + SumSeq(Tail(ns))

\* C40: for every chunk given to Processor::advance, every turn of the loop
\* processes at least one byte and no more than are left, so the loop ends
\* after at most as many turns as the chunk has bytes, with all of them
\* processed.
C40_AdvanceTerminates ==
    [][buf' # buf =>
         \A chunk \in {DropBytes(buf', RunLen(buf))} :
         \A counts \in {LoopCounts(processor, chunk)} :
            /\ \A i \in 1..Len(counts) : counts[i] >= 1
            /\ Len(counts) <= RunLen(chunk)
            /\ SumSeq(counts) = RunLen(chunk)
    ]_vars

\* ESU BSU ESC [ 4 m given to a new Processor: the first turn parses up to
\* the BSU, whose dispatch interrupts it, the second buffers the rest.
C40_Witness ==
    /\ fed = 1
    /\ buf = Runs(ESU_CSI \o BSU_CSI \o <<27, 91, 52, 109>>)
    /\ LoopCounts(NewProcessor, buf) = <<16, 4>>
    /\ processor.timeout # 0
    /\ processor.buffer = Runs(<<27, 91, 52, 109>>)

====
